---- MODULE Spec2Model ----
(***************************************************************************)
(* Model of the idempotent order-execution engine of flowdesk-qa-ts:       *)
(* TradingEngine (engine.ts) holding one Order, one Account and the set of *)
(* processed event ids, driven by applyExecution, getProcessedEventIds and *)
(* clearProcessedEvents.                                                   *)
(***************************************************************************)
EXTENDS Integers, FiniteSets, Sequences, TLC

(* ------------------------------ bounds --------------------------------- *)

\* largest order.quantity drawn for the engine's order
MaxQuantity == 3

\* number of distinct event ids the environment delivers
MaxEventIds == 2

\* number of apply calls made on an ExecutionConsumer
MaxCalls == 4

\* number of HTTP requests sent to the server of createServer
MaxRequests == 2

\* last clock tick (millisecond) of the period the mock engine is watched
MaxClock == 2

\* account.balance the engine is constructed with (the tests' value)
InitialBalance == 100

(* --------------------------- data shapes ------------------------------- *)

OrderStatus == {"OPEN", "PARTIALLY_FILLED", "FILLED"}

OrderSide == {"BUY", "SELL"}

\* the id of the engine's order, and an id no order of the engine carries
OrderId == "O1"

OrderIds == {OrderId, "WRONG"}

EventIds == 1..MaxEventIds

\* "execution" and one type the engine does not support
EventTypes == {"execution", "cancellation"}

\* executedQuantity may be negative, zero, or exceed what remains
Quantities == (-1)..(MaxQuantity + 1)

ExecutionEvent ==
    [type : EventTypes, eventId : EventIds, orderId : OrderIds,
     executedQuantity : Quantities]

\* status as a function of filledQuantity vs quantity (spec section 3);
\* used to draw consistent initial orders
ConsistentStatus(filled, quantity) ==
    IF filled = quantity THEN "FILLED"
    ELSE IF filled > 0 THEN "PARTIALLY_FILLED"
    ELSE "OPEN"

\* the orders an engine is constructed with: positive quantity,
\* 0 <= filledQuantity <= quantity, status consistent with it
InitialOrders ==
    UNION { { [id |-> OrderId, side |-> s, quantity |-> q, filledQuantity |-> f,
               status |-> ConsistentStatus(f, q)] :
                 s \in OrderSide, f \in 0..q } : q \in 1..MaxQuantity }

(* ------------------------------ state ---------------------------------- *)

VARIABLES
    order,              \* TradingEngine.order
    account,            \* TradingEngine.account
    processedEventIds,  \* TradingEngine.processedEventIds
    lastOp,             \* the last step: "new", "apply", "get", "clear" or
                        \* "mutate" (the caller changed the set it was handed)
    lastEvt,            \* the argument of the last call (NoEvent when it takes none)
    result,             \* the value the last call returned
    pre,                \* order, account and processed set before the last call
    everApplied,        \* event ids applied successfully since construction
    sinceClear          \* event ids applied successfully since the last clear

engineVars ==
    <<order, account, processedEventIds, lastOp, lastEvt, result, pre,
      everApplied, sinceClear>>

\* at-least-once delivery of a fixed set of events to one engine
VARIABLES
    pool,               \* the events the channel has to deliver
    seen,               \* the events of the pool delivered at least once
    initial             \* order and account the engine was constructed with

deliveryVars == <<pool, seen, initial>>

\* WebSocket connections of connectAndConsume feeding the one engine
VARIABLES
    inbox,              \* per connection: the message in flight, or Empty
    handled,            \* the connection whose handler ran last
    appliedBy,          \* per eventId: the connections whose delivery was applied
    shadow              \* an engine that is handed the execution messages only

consumerVars == <<inbox, handled, appliedBy, shadow>>

\* the mock engine (mockEngine.js): its clock, Redis, the orders table and the
\* POST /execute handlers in progress
VARIABLES
    now,                \* Date.now(), in clock ticks
    redis,              \* the keys set in Redis (execution:<eventId>)
    row,                \* the row of the order in the orders table
    handler,            \* per request: where its handler stands and what it holds
    arrivals,           \* how many requests have arrived
    wsSent,             \* the execution events broadcast so far, in order
    redisQueue,         \* the requests whose Redis command is waiting, in order
    wsRead              \* how many broadcasts the consumer's engine has taken

mockVars == <<now, redis, row, handler, arrivals, wsSent, redisQueue, wsRead>>

\* the HTTP server of createServer, seen from its clients
VARIABLES
    httpLog             \* the requests answered so far, each with its answer

healthVars == <<httpLog>>

serverVars == <<mockVars, healthVars>>

\* executeOrder (the function appended to wsClientConsumer.ts) and its caller
VARIABLES
    eoOrder,            \* the Order passed to executeOrder, with _lastExecution
    eoAccount,          \* the Account passed to executeOrder
    eoNow,              \* Date.now(), in milliseconds
    eoInitial,          \* the order and account before the first call
    eoCall              \* the last call: its quantity, the state before it

executeVars == <<eoOrder, eoAccount, eoNow, eoInitial, eoCall>>

\* the in-memory demo engine appended to tests/e2e.spec.ts
VARIABLES
    demoOrders,         \* the orders Map, as the sequence of its values in insertion order
    demoProcessed,      \* its processedEventIds
    demoSent,           \* the events broadcast to WebSocket clients, in order
    demoApplied,        \* the events applyExecution returned applied: true for
    demoPosts,          \* how many POST /orders requests have been handled
    demoTickOdd         \* whether the timer has fired an odd number of times

demoVars == <<demoOrders, demoProcessed, demoSent, demoApplied, demoPosts,
              demoTickOdd>>

\* the ExecutionConsumer class appended to tests/executeOrder.spec.ts
VARIABLES
    ecOrder,            \* ExecutionConsumer.order
    ecAccount,          \* ExecutionConsumer.account
    ecSeen,             \* ExecutionConsumer.seen
    ecInitialBalance,   \* ExecutionConsumer.initialBalance
    ecAppliedCount,     \* ExecutionConsumer.appliedCount
    ecRejectedCount,    \* ExecutionConsumer.rejectedCount
    ecCalls,            \* the apply calls made: how many, how many applied, how many rejected as duplicate
    ecLast              \* the last call: the method, its event, its return value

classVars == <<ecOrder, ecAccount, ecSeen, ecInitialBalance, ecAppliedCount,
               ecRejectedCount, ecCalls, ecLast>>

\* startWsServer (server.ts) broadcasting to one connectAndConsume client
VARIABLES
    bcReadyState,       \* readyState of the client's socket in wss.clients
    bcQueue,            \* the payloads sent to the client and not yet handled
    bcCalls,            \* how many times broadcast has been called
    bcSent,             \* the events broadcast while the socket was OPEN, in order
    bcHanded            \* the events the handler passed to applyExecution, in order

broadcastVars == <<bcReadyState, bcQueue, bcCalls, bcSent, bcHanded>>

\* start() of the mock engine (mockEngine.js)
VARIABLES
    stPc,               \* where start() stands
    stAttempts,         \* the local counter attempts of the init function running
    stTried,            \* per service: the connection attempts made, the failed ones
    stPgClient,         \* the global pgClient: null or the pool
    stRedisClient,      \* the global redisClient: null or the client
    stServers,          \* whether the HTTP and the WebSocket server were started
    stExitCode,         \* whether process.exit was called, and with which code
    stHealth            \* the body of the last answer to GET /health

startVars == <<stPc, stAttempts, stTried, stPgClient, stRedisClient, stServers,
               stExitCode, stHealth>>

\* the WebSocket server of the mock engine (mockEngine.js createWsServer)
VARIABLES
    wsClients,          \* the global set wsClients
    wsReadyState,       \* per socket: its readyState, or that it never connected
    wsEvents,           \* per socket: the events the server has handled for it
    wsHealth,           \* the last answer to GET /health, with the set at that time
    wsBroadcast         \* the last broadcast: who was sent the event, and the
                        \* set and the readyStates at that time

registryVars == <<wsClients, wsReadyState, wsEvents, wsHealth, wsBroadcast>>

\* the WebSocket server with its consumer, the mock engine's start-up and its
\* registry of clients
systemVars == <<broadcastVars, startVars, registryVars>>

\* the programs beside the engine, its consumers and the servers
extraVars == <<executeVars, demoVars, classVars, systemVars>>

\* everything the TradingEngine's own methods leave alone
nonEngineVars == <<deliveryVars, consumerVars, serverVars, extraVars>>

vars == <<engineVars, nonEngineVars>>

Min(a, b) == IF a < b THEN a ELSE b

NoEvent == [type |-> "none"]

\* what the constructor and a void method leave as "returned value"
NoValue == [void |-> TRUE]

Snapshot == [order |-> order, account |-> account, processed |-> processedEventIds]

(* ------------------------ TradingEngine.applyExecution ------------------ *)

\* Rejection with the duplicate check left out
RejectionNoDedup(evt, o, processed) ==
    IF evt.type # "execution" THEN "unsupported_event"
    ELSE IF evt.orderId # o.id THEN "unknown_order"
    ELSE IF evt.executedQuantity <= 0 THEN "invalid_executed_quantity"
    ELSE IF o.status = "FILLED" THEN "already_filled"
    ELSE "none"

\* Rejection with the check of a FILLED order left out
RejectionNoFilledCheck(evt, o, processed) ==
    IF evt.type # "execution" THEN "unsupported_event"
    ELSE IF evt.eventId \in processed THEN "duplicate_event"
    ELSE IF evt.orderId # o.id THEN "unknown_order"
    ELSE IF evt.executedQuantity <= 0 THEN "invalid_executed_quantity"
    ELSE "none"

\* Rejection with the order id validated before the duplicate check
RejectionOrderIdFirst(evt, o, processed) ==
    IF evt.type # "execution" THEN "unsupported_event"
    ELSE IF evt.orderId # o.id THEN "unknown_order"
    ELSE IF evt.eventId \in processed THEN "duplicate_event"
    ELSE IF evt.executedQuantity <= 0 THEN "invalid_executed_quantity"
    ELSE IF o.status = "FILLED" THEN "already_filled"
    ELSE "none"

\* Rejection with the check of a non-positive quantity left out
RejectionNoQuantityCheck(evt, o, processed) ==
    IF evt.type # "execution" THEN "unsupported_event"
    ELSE IF evt.eventId \in processed THEN "duplicate_event"
    ELSE IF evt.orderId # o.id THEN "unknown_order"
    ELSE IF o.status = "FILLED" THEN "already_filled"
    ELSE "none"

\* the guard chain of applyExecution: the reason of the first check that
\* rejects evt, or "none" when evt passes all five
Rejection(evt, o, processed) ==
    IF evt.type # "execution" THEN "unsupported_event"
    ELSE IF evt.eventId \in processed THEN "duplicate_event"
    ELSE IF evt.orderId # o.id THEN "unknown_order"
    ELSE IF evt.executedQuantity <= 0 THEN "invalid_executed_quantity"
    ELSE IF o.status = "FILLED" THEN "already_filled"
    ELSE "none"

\* EffectiveQty without the cap at the remaining quantity
EffectiveQtyUncapped(evt, o) ==
    evt.executedQuantity

\* const remaining = quantity - filledQuantity;
\* const effectiveQty = Math.min(evt.executedQuantity, remaining)
EffectiveQty(evt, o) ==
    Min(evt.executedQuantity, o.quantity - o.filledQuantity)

\* StatusAfterFill testing "filled > 0" before "filled = quantity"
StatusAfterFillPartialFirst(filled, quantity) ==
    IF filled > 0 THEN "PARTIALLY_FILLED"
    ELSE IF filled = quantity THEN "FILLED"
    ELSE "OPEN"

\* the status the engine assigns after the fill
StatusAfterFill(filled, quantity) ==
    IF filled = quantity THEN "FILLED"
    ELSE IF filled > 0 THEN "PARTIALLY_FILLED"
    ELSE "OPEN"

\* a balance update that reads the order's side
BalanceAfterFillBySide(balance, o, eff) ==
    IF o.side = "SELL" THEN balance + eff ELSE balance - eff

\* account.balance -= effectiveQty (the order's side is not read)
BalanceAfterFill(balance, o, eff) ==
    balance - eff

\* AppliedResult comparing with <= instead of <
AppliedResultCappedOnEqual(evt, eff) ==
    IF eff <= evt.executedQuantity
    THEN [applied |-> TRUE, reason |-> "capped_overfill"]
    ELSE [applied |-> TRUE]

\* the value returned by a successful call
AppliedResult(evt, eff) ==
    IF eff < evt.executedQuantity
    THEN [applied |-> TRUE, reason |-> "capped_overfill"]
    ELSE [applied |-> TRUE]

\* ProcessedAfterReject recording the id of a rejected event
ProcessedAfterRejectRecords(evt, processed, r) ==
    processed \cup {evt.eventId}

\* ProcessedAfterReject with the id recorded right after the duplicate check,
\* before the event is validated
ProcessedAfterRejectRecordsUnvalidated(evt, processed, r) ==
    IF r \in {"unsupported_event", "duplicate_event"}
    THEN processed
    ELSE processed \cup {evt.eventId}

\* the processed set after a call that returned rejection reason r
ProcessedAfterReject(evt, processed, r) ==
    processed

\* the whole method: the engine state and the return value after the call
applyExecution(evt, o, a, processed) ==
    LET r == Rejection(evt, o, processed) IN
    IF r # "none"
    THEN [order |-> o, account |-> a,
          processed |-> ProcessedAfterReject(evt, processed, r),
          result |-> [applied |-> FALSE, reason |-> r]]
    ELSE
      LET eff == EffectiveQty(evt, o)
          filled == o.filledQuantity + eff
      IN [order |-> [o EXCEPT !.filledQuantity = filled,
                               !.status = StatusAfterFill(filled, o.quantity)],
          account |-> [a EXCEPT !.balance = BalanceAfterFill(a.balance, o, eff)],
          processed |-> processed \cup {evt.eventId},
          result |-> AppliedResult(evt, eff)]

(* ------------------------------ actions -------------------------------- *)

InitEngine ==
    /\ order \in InitialOrders
    /\ account = [balance |-> InitialBalance]
    /\ processedEventIds = {}
    /\ lastOp = "new"
    /\ lastEvt = NoEvent
    /\ result = NoValue
    /\ pre = [order |-> order, account |-> account, processed |-> {}]
    /\ everApplied = {}
    /\ sinceClear = {}

\* no channel is attached
InitNoDelivery ==
    /\ pool = {}
    /\ seen = {}
    /\ initial = NoValue

\* no connection is open
InitNoConsumer ==
    /\ inbox = NoValue
    /\ handled = NoValue
    /\ appliedBy = NoValue
    /\ shadow = NoValue

\* executeOrder has no order to work on
InitNoExecuteOrder ==
    /\ eoOrder = NoValue
    /\ eoAccount = NoValue
    /\ eoNow = NoValue
    /\ eoInitial = NoValue
    /\ eoCall = NoValue

\* the demo engine is not running
InitNoDemo ==
    /\ demoOrders = NoValue
    /\ demoProcessed = NoValue
    /\ demoSent = NoValue
    /\ demoApplied = NoValue
    /\ demoPosts = NoValue
    /\ demoTickOdd = NoValue

\* no ExecutionConsumer has been constructed
InitNoClass ==
    /\ ecOrder = NoValue
    /\ ecAccount = NoValue
    /\ ecSeen = NoValue
    /\ ecInitialBalance = NoValue
    /\ ecAppliedCount = NoValue
    /\ ecRejectedCount = NoValue
    /\ ecCalls = NoValue
    /\ ecLast = NoValue

\* no startWsServer is running
InitNoBroadcast ==
    /\ bcReadyState = NoValue
    /\ bcQueue = NoValue
    /\ bcCalls = NoValue
    /\ bcSent = NoValue
    /\ bcHanded = NoValue

\* the mock engine has not been launched
InitNoStart ==
    /\ stPc = NoValue
    /\ stAttempts = NoValue
    /\ stTried = NoValue
    /\ stPgClient = NoValue
    /\ stRedisClient = NoValue
    /\ stServers = NoValue
    /\ stExitCode = NoValue
    /\ stHealth = NoValue

\* the mock engine's WebSocket server has not been created
InitNoRegistry ==
    /\ wsClients = NoValue
    /\ wsReadyState = NoValue
    /\ wsEvents = NoValue
    /\ wsHealth = NoValue
    /\ wsBroadcast = NoValue

InitNoSystem ==
    /\ InitNoBroadcast
    /\ InitNoStart
    /\ InitNoRegistry

InitNoExtras ==
    /\ InitNoExecuteOrder
    /\ InitNoDemo
    /\ InitNoClass
    /\ InitNoSystem

\* no HTTP server is running
InitNoServers ==
    /\ now = NoValue
    /\ redis = NoValue
    /\ row = NoValue
    /\ handler = NoValue
    /\ arrivals = NoValue
    /\ wsSent = NoValue
    /\ redisQueue = NoValue
    /\ wsRead = NoValue
    /\ httpLog = NoValue

Init ==
    /\ InitEngine
    /\ InitNoDelivery
    /\ InitNoConsumer
    /\ InitNoServers
    /\ InitNoExtras

\* one applyExecution call, on the engine's own state
EngineApply(evt) ==
    LET out == applyExecution(evt, order, account, processedEventIds) IN
    /\ order' = out.order
    /\ account' = out.account
    /\ processedEventIds' = out.processed
    /\ result' = out.result
    /\ lastOp' = "apply"
    /\ lastEvt' = evt
    /\ pre' = Snapshot
    /\ everApplied' = IF out.result.applied
                      THEN everApplied \cup {evt.eventId}
                      ELSE everApplied
    /\ sinceClear' = IF out.result.applied
                     THEN sinceClear \cup {evt.eventId}
                     ELSE sinceClear

ApplyExecution(evt) ==
    /\ EngineApply(evt)
    /\ UNCHANGED nonEngineVars

\* getProcessedEventIds returning this.processedEventIds itself
ReturnedSetIsLiveReference == TRUE

\* whether the set getProcessedEventIds returns is the engine's own set object:
\* it is not, "new Set(this.processedEventIds)" builds a fresh one
ReturnedSetIsLive == FALSE

\* return new Set(this.processedEventIds)
GetProcessedEventIds ==
    /\ result' = [set |-> processedEventIds]
    /\ lastOp' = "get"
    /\ lastEvt' = NoEvent
    /\ pre' = Snapshot
    /\ UNCHANGED <<order, account, processedEventIds, everApplied, sinceClear>>
    /\ UNCHANGED nonEngineVars

\* clearProcessedEvents that also reopens the order
ClearProcessedEventsReopensOrder ==
    /\ processedEventIds' = {}
    /\ order' = [order EXCEPT !.filledQuantity = 0, !.status = "OPEN"]
    /\ result' = NoValue
    /\ lastOp' = "clear"
    /\ lastEvt' = NoEvent
    /\ pre' = Snapshot
    /\ sinceClear' = {}
    /\ UNCHANGED <<account, everApplied>>
    /\ UNCHANGED nonEngineVars

\* clearProcessedEvents leaving the set as it is
ClearProcessedEventsKeeps ==
    /\ processedEventIds' = processedEventIds
    /\ result' = NoValue
    /\ lastOp' = "clear"
    /\ lastEvt' = NoEvent
    /\ pre' = Snapshot
    /\ sinceClear' = {}
    /\ UNCHANGED <<order, account, everApplied>>
    /\ UNCHANGED nonEngineVars

\* this.processedEventIds.clear()
ClearProcessedEvents ==
    /\ processedEventIds' = {}
    /\ result' = NoValue
    /\ lastOp' = "clear"
    /\ lastEvt' = NoEvent
    /\ pre' = Snapshot
    /\ sinceClear' = {}
    /\ UNCHANGED <<order, account, everApplied>>
    /\ UNCHANGED nonEngineVars

\* the caller adds id to, or deletes it from, the set the last
\* getProcessedEventIds call handed out
CallerMutatesReturnedSet(id, add) ==
    /\ lastOp \in {"get", "mutate"}
    /\ LET s == IF add THEN result.set \cup {id} ELSE result.set \ {id} IN
       /\ result' = [set |-> s]
       /\ processedEventIds' = IF ReturnedSetIsLive THEN s ELSE processedEventIds
    /\ lastOp' = "mutate"
    /\ lastEvt' = NoEvent
    /\ pre' = Snapshot
    /\ UNCHANGED <<order, account, everApplied, sinceClear>>
    /\ UNCHANGED nonEngineVars

Next ==
    \/ \E evt \in ExecutionEvent : ApplyExecution(evt)
    \/ GetProcessedEventIds
    \/ ClearProcessedEvents
    \/ \E id \in EventIds, add \in BOOLEAN : CallerMutatesReturnedSet(id, add)

Spec == Init /\ [][Next]_vars

(* ------------------- at-least-once delivery of a pool ------------------- *)

\* the events a pool may hold under one eventId: any quantity for the
\* engine's order, and one event each with a wrong orderId and another type
PoolEventsOf(id) ==
    { e \in ExecutionEvent :
        /\ e.eventId = id
        /\ (e.type # "execution" \/ e.orderId # OrderId) => e.executedQuantity = 1
        /\ e.type # "execution" => e.orderId = OrderId }

\* the pools: sets of events in which an eventId names at most one event
\* (eventId is the unique key of an execution, types.ts)
Pools ==
    UNION { { { f[id] : id \in ids } :
                f \in { g \in [ids -> UNION { PoolEventsOf(id) : id \in ids }] :
                          \A id \in ids : g[id].eventId = id } } :
            ids \in SUBSET EventIds }

InitDelivery ==
    /\ InitEngine
    /\ pool \in Pools
    /\ seen = {}
    /\ initial = [order |-> order, account |-> account, processed |-> {}]
    /\ InitNoConsumer
    /\ InitNoServers
    /\ InitNoExtras

\* the channel delivers an event of the pool, for the first time or again
Deliver(evt) ==
    /\ evt \in pool
    /\ EngineApply(evt)
    /\ seen' = seen \cup {evt}
    /\ UNCHANGED <<pool, initial>>
    /\ UNCHANGED <<consumerVars, serverVars, extraVars>>

NextDelivery == \E evt \in pool : Deliver(evt)

SpecDelivery == InitDelivery /\ [][NextDelivery]_vars

\* the engine state after each event of the set was delivered once, in the
\* order of the eventIds
RECURSIVE DeliveredOnceInIdOrder(_, _)
DeliveredOnceInIdOrder(events, st) ==
    IF events = {} THEN st
    ELSE LET e == CHOOSE x \in events : \A y \in events : x.eventId <= y.eventId
             out == applyExecution(e, st.order, st.account, st.processed)
         IN DeliveredOnceInIdOrder(events \ {e},
               [order |-> out.order, account |-> out.account,
                processed |-> out.processed])

(* ------------- applyExecution on untyped (parsed JSON) events ----------- *)

\* the key Set.has / Set.add use for an event that carries no eventId
\* (evt.eventId evaluates to undefined)
UndefinedKey == 0

\* the number NaN, which arithmetic on undefined produces; no quantity or
\* balance of the model comes near this value
NaN == -1000

Has(msg, field) == field \in DOMAIN msg

\* a + b and a - b on JavaScript numbers
JsAdd(a, b) == IF a = NaN \/ b = NaN THEN NaN ELSE a + b

JsSub(a, b) == IF a = NaN \/ b = NaN THEN NaN ELSE a - b

\* Math.min(a, b)
JsMin(a, b) == IF a = NaN \/ b = NaN THEN NaN ELSE Min(a, b)

\* a < b, false when either side is NaN
JsLess(a, b) == a # NaN /\ b # NaN /\ a < b

\* the event has the four fields of ExecutionEvent and the engine holds numbers
WellTyped(msg, o, a) ==
    /\ \A f \in {"type", "eventId", "orderId", "executedQuantity"} : Has(msg, f)
    /\ o.filledQuantity # NaN
    /\ a.balance # NaN

EventKey(msg) == IF Has(msg, "eventId") THEN msg.eventId ELSE UndefinedKey

\* the guard chain on an event with missing fields: a missing field reads as
\* undefined, and "undefined <= 0" is false
RejectionJs(msg, o, processed) ==
    IF ~Has(msg, "type") \/ msg.type # "execution" THEN "unsupported_event"
    ELSE IF EventKey(msg) \in processed THEN "duplicate_event"
    ELSE IF ~Has(msg, "orderId") \/ msg.orderId # o.id THEN "unknown_order"
    ELSE IF Has(msg, "executedQuantity") /\ msg.executedQuantity <= 0
         THEN "invalid_executed_quantity"
    ELSE IF o.status = "FILLED" THEN "already_filled"
    ELSE "none"

\* applyExecution as JavaScript runs it on whatever object it is handed: on a
\* well-typed event and numeric state it is applyExecution above; otherwise
\* the same statements with undefined and NaN flowing through them
applyExecutionJs(msg, o, a, processed) ==
    IF WellTyped(msg, o, a) THEN applyExecution(msg, o, a, processed)
    ELSE
      LET r == RejectionJs(msg, o, processed) IN
      IF r # "none"
      THEN [order |-> o, account |-> a, processed |-> processed,
            result |-> [applied |-> FALSE, reason |-> r]]
      ELSE
        LET qty == IF Has(msg, "executedQuantity") THEN msg.executedQuantity ELSE NaN
            remaining == JsSub(o.quantity, o.filledQuantity)
            eff == JsMin(qty, remaining)
            filled == JsAdd(o.filledQuantity, eff)
            status == IF filled # NaN /\ filled = o.quantity THEN "FILLED"
                      ELSE IF filled # NaN /\ filled > 0 THEN "PARTIALLY_FILLED"
                      ELSE "OPEN"
        IN [order |-> [o EXCEPT !.filledQuantity = filled, !.status = status],
            account |-> [a EXCEPT !.balance = JsSub(a.balance, eff)],
            processed |-> processed \cup {EventKey(msg)},
            result |-> IF Has(msg, "executedQuantity") /\ JsLess(eff, qty)
                       THEN [applied |-> TRUE, reason |-> "capped_overfill"]
                       ELSE [applied |-> TRUE]]

\* one applyExecution call with a parsed message, on the engine's own state
EngineApplyJs(msg) ==
    LET out == applyExecutionJs(msg, order, account, processedEventIds) IN
    /\ order' = out.order
    /\ account' = out.account
    /\ processedEventIds' = out.processed
    /\ result' = out.result
    /\ lastOp' = "apply"
    /\ lastEvt' = msg
    /\ pre' = Snapshot
    /\ everApplied' = IF out.result.applied
                      THEN everApplied \cup {EventKey(msg)}
                      ELSE everApplied
    /\ sinceClear' = IF out.result.applied
                     THEN sinceClear \cup {EventKey(msg)}
                     ELSE sinceClear

(* ------------------------- connectAndConsume ---------------------------- *)

Connections == {"A", "B"}

\* no handler has run yet
NoConnection == "none"

Empty == [empty |-> TRUE]

\* data that JSON.parse rejects, such as "{invalid json"
Garbage == [json |-> FALSE]

\* the text "null": JSON.parse returns null, and reading null.type throws
JsonNull == [json |-> TRUE, object |-> FALSE]

\* JSON.stringify(value) of an object whose fields are strings and numbers;
\* JSON.parse gives the fields back
JsonOf(value) == [json |-> TRUE, object |-> TRUE, value |-> value]

\* the events sent to consumers: a rejected, a small and a filling quantity
\* per eventId for the engine's order, one event with a wrong orderId and one
\* of another type
SentEvents ==
    { e \in ExecutionEvent :
        /\ e.executedQuantity \in {0, 1, MaxQuantity}
        /\ (e.type # "execution" \/ e.orderId # OrderId) =>
              (e.executedQuantity = 1 /\ e.eventId = 1)
        /\ e.type # "execution" => e.orderId = OrderId }

Payloads == {Garbage, JsonNull} \cup { JsonOf(e) : e \in SentEvents }

\* the data is the JSON text of an object whose type is "execution"
IsExecutionMessage(payload) ==
    /\ payload.json
    /\ payload.object
    /\ Has(payload.value, "type")
    /\ payload.value.type = "execution"

\* the message handler without the test of evt.type
OnMessageOutcomeNoTypeCheck(payload) ==
    IF ~payload.json THEN "caught"
    ELSE IF ~payload.object THEN "caught"
    ELSE "apply"

\* what the message handler does with the data: JSON.parse throws (caught),
\* reading .type of null throws (caught), a type other than "execution" is
\* ignored, an execution is passed to engine.applyExecution
OnMessageOutcome(payload) ==
    IF ~payload.json THEN "caught"
    ELSE IF ~payload.object THEN "caught"
    ELSE IF Has(payload.value, "type") /\ payload.value.type = "execution"
         THEN "apply"
    ELSE "ignored"

\* the engine is handed to connectAndConsume with a new order, as the tests do
InitConsumer ==
    /\ InitEngine
    /\ order.filledQuantity = 0
    /\ InitNoDelivery
    /\ inbox = [c \in Connections |-> Empty]
    /\ handled = NoConnection
    /\ appliedBy = [id \in EventIds \cup {UndefinedKey} |-> <<>>]
    /\ shadow = Snapshot
    /\ InitNoServers
    /\ InitNoExtras

\* the server sends data to one client: ws.send(data)
Send(c, payload) ==
    /\ inbox[c] = Empty
    /\ inbox' = [inbox EXCEPT ![c] = payload]
    /\ UNCHANGED <<handled, appliedBy, shadow>>
    /\ UNCHANGED <<engineVars, deliveryVars, serverVars, extraVars>>

\* startWsServer.broadcast(event): the payload goes to every open client
Broadcast(evt) ==
    /\ \A c \in Connections : inbox[c] = Empty
    /\ inbox' = [c \in Connections |-> JsonOf(evt)]
    /\ UNCHANGED <<handled, appliedBy, shadow>>
    /\ UNCHANGED <<engineVars, deliveryVars, serverVars, extraVars>>

\* ws.on("message") of connection c runs to completion on the data in flight
OnMessage(c) ==
    /\ inbox[c] # Empty
    /\ inbox' = [inbox EXCEPT ![c] = Empty]
    /\ handled' = c
    /\ IF OnMessageOutcome(inbox[c]) = "apply"
       THEN LET msg == inbox[c].value
                out == applyExecutionJs(msg, order, account, processedEventIds)
            IN /\ EngineApplyJs(msg)
               /\ appliedBy' = IF out.result.applied
                               THEN [appliedBy EXCEPT ![EventKey(msg)] = Append(@, c)]
                               ELSE appliedBy
       ELSE /\ lastOp' = "drop"
            /\ lastEvt' = inbox[c]
            /\ result' = NoValue
            /\ pre' = Snapshot
            /\ UNCHANGED <<order, account, processedEventIds, everApplied, sinceClear>>
            /\ UNCHANGED appliedBy
    /\ shadow' = IF IsExecutionMessage(inbox[c])
                 THEN LET sh == applyExecutionJs(inbox[c].value, shadow.order,
                                                 shadow.account, shadow.processed)
                      IN [order |-> sh.order, account |-> sh.account,
                          processed |-> sh.processed]
                 ELSE shadow
    /\ UNCHANGED <<deliveryVars, serverVars, extraVars>>

NextConsumer ==
    \/ \E c \in Connections, payload \in Payloads : Send(c, payload)
    \/ \E evt \in SentEvents : Broadcast(evt)
    \/ \E c \in Connections : OnMessage(c)

SpecConsumer == InitConsumer /\ [][NextConsumer]_vars

\* execution messages that lack some of eventId, orderId, executedQuantity;
\* the fields they carry are valid for the engine's order
PartialEvents ==
    {[type |-> "execution"],
     [type |-> "execution", orderId |-> OrderId],
     [type |-> "execution", executedQuantity |-> 1],
     [type |-> "execution", orderId |-> OrderId, executedQuantity |-> 1]}
    \cup { [type |-> "execution", eventId |-> id] : id \in EventIds }
    \cup { [type |-> "execution", eventId |-> id, orderId |-> OrderId] :
             id \in EventIds }
    \cup { [type |-> "execution", eventId |-> id, executedQuantity |-> 1] :
             id \in EventIds }

\* the server sends an execution message with missing fields
SendPartial(c, msg) ==
    /\ inbox[c] = Empty
    /\ inbox' = [inbox EXCEPT ![c] = JsonOf(msg)]
    /\ UNCHANGED <<handled, appliedBy, shadow>>
    /\ UNCHANGED <<engineVars, deliveryVars, serverVars, extraVars>>

NextPartial ==
    \/ \E c \in Connections, msg \in PartialEvents : SendPartial(c, msg)
    \/ \E c \in Connections : OnMessage(c)

SpecPartial == InitConsumer /\ [][NextPartial]_vars

(* --------------------- mockEngine.js: POST /execute --------------------- *)

\* the POST /execute requests, numbered in the order they arrive: a request
\* and its retry, or two clients' requests, one after the other or overlapping
Requests == {1, 2}

\* the eventId the client puts in the request body, such as "E-test-<ms>-1"
ClientEventId(n) == [client |-> n]

\* the eventId the server makes: `EXE-${Date.now()}`
ExeEventId(t) == [exe |-> t]

\* request bodies: text that is not JSON, and {orderId, quantity, eventId}
\* for the stored order with a small and a large quantity, and once for an
\* order that is not in the table
ExecuteBodies ==
    {Garbage}
    \cup { JsonOf([orderId |-> OrderId, quantity |-> q,
                   eventId |-> ClientEventId(n)]) :
             q \in {1, MaxQuantity}, n \in EventIds }
    \cup { JsonOf([orderId |-> "WRONG", quantity |-> 1,
                   eventId |-> ClientEventId(1)]) }

\* the row POST /orders inserts
CreatedRow(quantity) ==
    [id |-> OrderId, quantity |-> quantity, filled_quantity |-> 0,
     status |-> "OPEN", side |-> "BUY"]

IdleHandler ==
    [pc |-> "idle", body |-> NoValue, eventId |-> NoValue,
     selected |-> NoValue, response |-> NoValue]

\* the catch block: 400 with the error message
ErrorResponse == [status |-> 400, error |-> TRUE]

\* the status the handler writes after its SELECT, if any
RowStatusAfterSelect(selected, current) ==
    IF selected.filled_quantity >= selected.quantity THEN "FILLED"
    ELSE IF selected.filled_quantity > 0 THEN "PARTIALLY_FILLED"
    ELSE current

\* the mock engine is up, the order has been created, a consumer's engine
\* for that order is new
InitMock ==
    /\ InitEngine
    /\ order.filledQuantity = 0
    /\ order.side = "BUY"
    /\ InitNoDelivery
    /\ InitNoConsumer
    /\ now = 0
    /\ redis = {}
    /\ row = CreatedRow(order.quantity)
    /\ handler = [r \in Requests |-> IdleHandler]
    /\ arrivals = 0
    /\ wsSent = <<>>
    /\ redisQueue = <<>>
    /\ wsRead = 0
    /\ httpLog = NoValue
    /\ InitNoExtras

MockUnchanged ==
    UNCHANGED <<engineVars, deliveryVars, consumerVars, healthVars, extraVars>>

\* the clock reaches the next millisecond
Tick ==
    /\ now < MaxClock
    /\ now' = now + 1
    /\ UNCHANGED <<redis, row, handler, arrivals, wsSent, redisQueue, wsRead>>
    /\ MockUnchanged

\* req.on("end"): the body is parsed, the eventId is made from the clock and
\* the cache lookup is issued; a body that does not parse is answered 400
ReceiveExecute(body) ==
    LET r == arrivals + 1 IN
    /\ r \in Requests
    /\ arrivals' = r
    /\ handler' = [handler EXCEPT ![r] =
          IF ~body.json
          THEN [@ EXCEPT !.pc = "done", !.response = ErrorResponse]
          ELSE [@ EXCEPT !.pc = "get", !.body = body.value,
                         !.eventId = ExeEventId(now)]]
    /\ redisQueue' = IF body.json THEN Append(redisQueue, r) ELSE redisQueue
    /\ UNCHANGED <<now, redis, row, wsSent, wsRead>>
    /\ MockUnchanged

\* await redisClient.get(cacheKey): a cached key ends the request as duplicate;
\* the one Redis connection runs the commands in the order they were issued,
\* and the handler issues its SET when the GET's reply arrives
RedisGet(r) ==
    /\ handler[r].pc = "get"
    /\ redisQueue # <<>>
    /\ Head(redisQueue) = r
    /\ redisQueue' = IF handler[r].eventId \in redis
                     THEN Tail(redisQueue)
                     ELSE Append(Tail(redisQueue), r)
    /\ handler' = [handler EXCEPT ![r] =
          IF handler[r].eventId \in redis
          THEN [@ EXCEPT !.pc = "done",
                         !.response = [status |-> 200, applied |-> FALSE,
                                       reason |-> "duplicate",
                                       eventId |-> handler[r].eventId]]
          ELSE [@ EXCEPT !.pc = "set"]]
    /\ UNCHANGED <<now, redis, row, arrivals, wsSent, wsRead>>
    /\ MockUnchanged

\* await redisClient.setEx(cacheKey, 3600, "1"); the hour of the TTL is far
\* beyond the period watched, so no key expires
RedisSetEx(r) ==
    /\ handler[r].pc = "set"
    /\ redisQueue # <<>>
    /\ Head(redisQueue) = r
    /\ redisQueue' = Tail(redisQueue)
    /\ redis' = redis \cup {handler[r].eventId}
    /\ handler' = [handler EXCEPT ![r].pc = "update"]
    /\ UNCHANGED <<now, row, arrivals, wsSent, wsRead>>
    /\ MockUnchanged

\* UPDATE orders SET filled_quantity = filled_quantity + $1 WHERE id = $2;
\* pgClient is a Pool, so the queries of two handlers run on connections of
\* their own and in any order
UpdateFilledQuantity(r) ==
    /\ handler[r].pc = "update"
    /\ row' = IF handler[r].body.orderId = row.id
              THEN [row EXCEPT !.filled_quantity = @ + handler[r].body.quantity]
              ELSE row
    /\ handler' = [handler EXCEPT ![r].pc = "select"]
    /\ UNCHANGED <<now, redis, arrivals, wsSent, redisQueue, wsRead>>
    /\ MockUnchanged

\* SELECT * FROM orders WHERE id = $1; with no row, rows[0] is undefined and
\* reading its filled_quantity throws into the catch block
SelectOrder(r) ==
    /\ handler[r].pc = "select"
    /\ handler' = [handler EXCEPT ![r] =
          IF handler[r].body.orderId = row.id
          THEN [@ EXCEPT !.pc = "status", !.selected = row]
          ELSE [@ EXCEPT !.pc = "done", !.response = ErrorResponse]]
    /\ UNCHANGED <<now, redis, row, arrivals, wsSent, redisQueue, wsRead>>
    /\ MockUnchanged

\* UPDATE orders SET status = ... from the row selected
UpdateStatus(r) ==
    /\ handler[r].pc = "status"
    /\ row' = [row EXCEPT !.status = RowStatusAfterSelect(handler[r].selected, @)]
    /\ handler' = [handler EXCEPT ![r].pc = "respond"]
    /\ UNCHANGED <<now, redis, arrivals, wsSent, redisQueue, wsRead>>
    /\ MockUnchanged

\* the event is broadcast and the request answered applied: true
Respond(r) ==
    /\ handler[r].pc = "respond"
    /\ wsSent' = Append(wsSent, [type |-> "execution",
                                 eventId |-> handler[r].eventId,
                                 orderId |-> handler[r].body.orderId,
                                 executedQuantity |-> handler[r].body.quantity])
    /\ handler' = [handler EXCEPT ![r] =
          [@ EXCEPT !.pc = "done",
                    !.response = [status |-> 200, applied |-> TRUE,
                                  eventId |-> handler[r].eventId,
                                  order |-> handler[r].selected]]]
    /\ UNCHANGED <<now, redis, row, arrivals, redisQueue, wsRead>>
    /\ MockUnchanged

NextMock ==
    \/ Tick
    \/ \E body \in ExecuteBodies : ReceiveExecute(body)
    \/ \E r \in Requests : RedisGet(r)
    \/ \E r \in Requests : RedisSetEx(r)
    \/ \E r \in Requests : UpdateFilledQuantity(r)
    \/ \E r \in Requests : SelectOrder(r)
    \/ \E r \in Requests : UpdateStatus(r)
    \/ \E r \in Requests : Respond(r)

SpecMock == InitMock /\ [][NextMock]_vars

(* ------------------------ server.ts: createServer ----------------------- *)

HttpMethods == {"GET", "POST", "PUT", "DELETE", "PATCH", "HEAD"}

\* request targets (req.url): the health route and others, some close to it
HttpUrls == {"/health", "/", "/unknown-route", "/health/", "/health?probe=1"}

\* a handler that looks at the url only
createServerHandlerAnyMethod(method, url) ==
    IF url = "/health"
    THEN [status |-> 200, contentType |-> "application/json",
          body |-> JsonOf([ok |-> TRUE])]
    ELSE [status |-> 404, contentType |-> "none", body |-> Empty]

\* the request listener: what it writes for a request
createServerHandler(method, url) ==
    IF method = "GET" /\ url = "/health"
    THEN [status |-> 200, contentType |-> "application/json",
          body |-> JsonOf([ok |-> TRUE])]
    ELSE [status |-> 404, contentType |-> "none", body |-> Empty]

\* the server listens; the listener's closure holds no state, and no engine
\* is attached to it (the engine's variables stay at a new order's values)
InitHealth ==
    /\ InitEngine
    /\ order.quantity = MaxQuantity
    /\ order.filledQuantity = 0
    /\ order.side = "BUY"
    /\ InitNoDelivery
    /\ InitNoConsumer
    /\ now = NoValue
    /\ redis = NoValue
    /\ row = NoValue
    /\ handler = NoValue
    /\ arrivals = NoValue
    /\ wsSent = NoValue
    /\ redisQueue = NoValue
    /\ wsRead = NoValue
    /\ httpLog = <<>>
    /\ InitNoExtras

\* a client sends a request and reads the answer
HandleRequest(method, url) ==
    /\ Len(httpLog) < MaxRequests
    /\ httpLog' = Append(httpLog, [method |-> method, url |-> url,
                                   response |-> createServerHandler(method, url)])
    /\ UNCHANGED <<engineVars, deliveryVars, consumerVars, mockVars, extraVars>>

NextHealth == \E method \in HttpMethods, url \in HttpUrls : HandleRequest(method, url)

SpecHealth == InitHealth /\ [][NextHealth]_vars

(* ------------------- wsClientConsumer.ts: executeOrder ------------------ *)

\* the window of the duplicate test, in milliseconds
DuplicateWindowMs == 100

\* the clock is watched at steps of half the window
ClockStepMs == 50

\* executeOrder's Order before its first execution: no _lastExecution field
NoLastExecution == [none |-> TRUE]

\* order._lastExecution?.quantity === executedQuantity
\*    && now - order._lastExecution.timestamp < 100
IsDuplicateExecution(o, executedQuantity, t) ==
    /\ o.lastExecution # NoLastExecution
    /\ o.lastExecution.quantity = executedQuantity
    /\ t - o.lastExecution.timestamp < DuplicateWindowMs

\* actualQuantity without the cap at the remaining quantity
ActualQuantityUncapped(o, executedQuantity) ==
    executedQuantity

\* Math.min(executedQuantity, order.quantity - order.filledQuantity)
ActualQuantity(o, executedQuantity) ==
    Min(executedQuantity, o.quantity - o.filledQuantity)

\* the status written at the end of executeOrder
StatusOfFill(filled, quantity) ==
    IF filled >= quantity THEN "FILLED"
    ELSE IF filled > 0 THEN "PARTIALLY_FILLED"
    ELSE "OPEN"

\* executeOrder(order, account, executedQuantity) called at time t: the order
\* and the account it leaves
executeOrder(o, a, executedQuantity, t) ==
    IF IsDuplicateExecution(o, executedQuantity, t)
    THEN [order |-> o, account |-> a]
    ELSE
      LET actual == ActualQuantity(o, executedQuantity)
          filled == IF actual > 0 THEN o.filledQuantity + actual
                    ELSE o.filledQuantity
      IN [order |->
            [o EXCEPT !.filledQuantity = filled,
                      !.lastExecution =
                          IF actual > 0
                          THEN [quantity |-> executedQuantity, timestamp |-> t]
                          ELSE @,
                      !.status = StatusOfFill(filled, o.quantity)],
          account |->
            IF actual > 0
            THEN [a EXCEPT !.balance =
                      IF o.side = "BUY" THEN @ - actual ELSE @ + actual]
            ELSE a]

\* the engine's variables where no engine is in use: a new order
InitEngineUnused ==
    /\ InitEngine
    /\ order.quantity = MaxQuantity
    /\ order.filledQuantity = 0
    /\ order.side = "BUY"

\* a consistent order without _lastExecution, as the tests construct it
InitExecuteOrder ==
    /\ InitEngineUnused
    /\ InitNoDelivery
    /\ InitNoConsumer
    /\ InitNoServers
    /\ \E o \in InitialOrders :
          eoOrder = [id |-> o.id, side |-> o.side, quantity |-> o.quantity,
                     filledQuantity |-> o.filledQuantity, status |-> o.status,
                     lastExecution |-> NoLastExecution]
    /\ eoAccount = [balance |-> InitialBalance]
    /\ eoNow = 0
    /\ eoInitial = [order |-> eoOrder, account |-> eoAccount]
    /\ eoCall = NoValue
    /\ InitNoDemo
    /\ InitNoClass
    /\ InitNoSystem

ExecuteUnchanged ==
    UNCHANGED <<engineVars, deliveryVars, consumerVars, serverVars, demoVars,
                classVars, systemVars>>

\* time passes between two calls
AdvanceClock ==
    /\ eoNow < MaxClock * ClockStepMs
    /\ eoNow' = eoNow + ClockStepMs
    /\ UNCHANGED <<eoOrder, eoAccount, eoInitial, eoCall>>
    /\ ExecuteUnchanged

\* the caller hands an execution of the given quantity to executeOrder;
\* redelivery says that it is the execution of the call before, delivered again
CallExecuteOrder(executedQuantity, redelivery) ==
    LET out == executeOrder(eoOrder, eoAccount, executedQuantity, eoNow) IN
    /\ redelivery => (eoCall # NoValue /\ eoCall.quantity = executedQuantity)
    /\ eoOrder' = out.order
    /\ eoAccount' = out.account
    /\ eoCall' = [quantity |-> executedQuantity,
                  redelivery |-> redelivery,
                  prev |-> IF eoCall = NoValue THEN NoValue
                           ELSE [quantity |-> eoCall.quantity],
                  pre |-> [order |-> eoOrder, account |-> eoAccount]]
    /\ UNCHANGED <<eoNow, eoInitial>>
    /\ ExecuteUnchanged

NextExecuteOrder ==
    \/ AdvanceClock
    \/ \E q \in Quantities, redelivery \in BOOLEAN : CallExecuteOrder(q, redelivery)

SpecExecuteOrder == InitExecuteOrder /\ [][NextExecuteOrder]_vars

(* ------------- a TradingEngine consuming the mock's broadcasts ---------- *)

\* the consumer's message handler takes the next broadcast of the mock engine
\* (the event's timestamp field, which the engine never reads, is left out)
ConsumeBroadcast ==
    LET msg == wsSent[wsRead + 1] IN
    /\ wsRead < Len(wsSent)
    /\ OnMessageOutcome(JsonOf(msg)) = "apply"
    /\ EngineApplyJs(msg)
    /\ wsRead' = wsRead + 1
    /\ UNCHANGED <<now, redis, row, handler, arrivals, wsSent, redisQueue>>
    /\ UNCHANGED <<deliveryVars, consumerVars, healthVars, extraVars>>

NextMockConsumer ==
    \/ NextMock
    \/ ConsumeBroadcast

SpecMockConsumer == InitMock /\ [][NextMockConsumer]_vars

(* ------------- tests/e2e.spec.ts: the in-memory demo engine ------------- *)

\* executedQuantity of every event the timer makes
DemoExecutedQuantity == 3

\* ids a POST /orders body carries
DemoOrderIds == {"O1", "O2"}

\* quantities a POST /orders body carries: none left, less than one
\* execution, and up to more than two executions
DemoQuantities == (-1)..(2 * MaxQuantity + 1)

\* `E-${first.id}-${first.filledQuantity}`
DemoEventId(o) == [order |-> o.id, filled |-> o.filledQuantity]

\* the position of the id in the Map, 0 if it is not a key
DemoIndexOf(orders, id) ==
    IF \E i \in 1..Len(orders) : orders[i].id = id
    THEN CHOOSE i \in 1..Len(orders) : orders[i].id = id
    ELSE 0

\* orders.set(id, order): a key already in the Map keeps its position
DemoMapSet(orders, o) ==
    IF DemoIndexOf(orders, o.id) = 0 THEN Append(orders, o)
    ELSE [orders EXCEPT ![DemoIndexOf(orders, o.id)] = o]

\* the guards of the demo applyExecution without the duplicate test
DemoRejectionNoDedup(evt, orders, processed) ==
    IF DemoIndexOf(orders, evt.orderId) = 0 THEN "unknown_order"
    ELSE IF evt.executedQuantity <= 0 THEN "invalid_executed_quantity"
    ELSE IF orders[DemoIndexOf(orders, evt.orderId)].status = "FILLED"
         THEN "already_filled"
    ELSE "none"

\* the guards of the demo applyExecution, in the order of the code
DemoRejection(evt, orders, processed) ==
    IF evt.eventId \in processed THEN "duplicate_event"
    ELSE IF DemoIndexOf(orders, evt.orderId) = 0 THEN "unknown_order"
    ELSE IF evt.executedQuantity <= 0 THEN "invalid_executed_quantity"
    ELSE IF orders[DemoIndexOf(orders, evt.orderId)].status = "FILLED"
         THEN "already_filled"
    ELSE "none"

\* the demo applyExecution(evt) on the state st = [orders, processed, sent,
\* applied]: the state it leaves
DemoApplyExecution(evt, st) ==
    IF DemoRejection(evt, st.orders, st.processed) # "none" THEN st
    ELSE
      LET i == DemoIndexOf(st.orders, evt.orderId)
          o == st.orders[i]
          effectiveQty == Min(evt.executedQuantity, o.quantity - o.filledQuantity)
          filled == o.filledQuantity + effectiveQty
      IN [orders |-> [st.orders EXCEPT ![i] =
                        [o EXCEPT !.filledQuantity = filled,
                                  !.status = IF filled = o.quantity THEN "FILLED"
                                             ELSE "PARTIALLY_FILLED"]],
          processed |-> st.processed \cup {evt.eventId},
          sent |-> Append(st.sent, evt),
          applied |-> Append(st.applied, evt)]

\* the callback of setInterval: nothing without orders; otherwise one event
\* for the first order, applied, and applied once more when the order's
\* filledQuantity is then even
DemoTimerCallback(st) ==
    IF st.orders = <<>> THEN st
    ELSE
      LET first == st.orders[1]
          evt == [type |-> "execution", eventId |-> DemoEventId(first),
                  orderId |-> first.id, executedQuantity |-> DemoExecutedQuantity]
          once == DemoApplyExecution(evt, st)
      IN IF once.orders[1].filledQuantity % 2 = 0
         THEN DemoApplyExecution(evt, once)
         ELSE once

DemoState ==
    [orders |-> demoOrders, processed |-> demoProcessed, sent |-> demoSent,
     applied |-> demoApplied]

\* the demo engine has started: no orders, nothing processed
InitDemo ==
    /\ InitEngineUnused
    /\ InitNoDelivery
    /\ InitNoConsumer
    /\ InitNoServers
    /\ InitNoExecuteOrder
    /\ InitNoClass
    /\ InitNoSystem
    /\ demoOrders = <<>>
    /\ demoProcessed = {}
    /\ demoSent = <<>>
    /\ demoApplied = <<>>
    /\ demoPosts = 0
    /\ demoTickOdd = FALSE

DemoUnchanged ==
    UNCHANGED <<engineVars, deliveryVars, consumerVars, serverVars, executeVars,
                classVars, systemVars>>

\* POST /orders with {id, quantity}: a new order is put in the Map under the
\* id, taking the place of an order already there
DemoPostOrder(id, quantity) ==
    /\ demoPosts < MaxRequests
    /\ demoPosts' = demoPosts + 1
    /\ demoOrders' = DemoMapSet(demoOrders,
                        [id |-> id, quantity |-> quantity, filledQuantity |-> 0,
                         status |-> "OPEN"])
    /\ UNCHANGED <<demoProcessed, demoSent, demoApplied, demoTickOdd>>
    /\ DemoUnchanged

\* the 200 ms timer fires
DemoTimerTick ==
    LET out == DemoTimerCallback(DemoState) IN
    /\ demoOrders' = out.orders
    /\ demoProcessed' = out.processed
    /\ demoSent' = out.sent
    /\ demoApplied' = out.applied
    /\ demoTickOdd' = ~demoTickOdd
    /\ UNCHANGED demoPosts
    /\ DemoUnchanged

NextDemo ==
    \/ \E id \in DemoOrderIds, quantity \in DemoQuantities : DemoPostOrder(id, quantity)
    \/ DemoTimerTick

SpecDemo == InitDemo /\ [][NextDemo]_vars

\* the timer keeps firing
SpecDemoFair == SpecDemo /\ WF_vars(DemoTimerTick)

(* --------- tests/executeOrder.spec.ts: the ExecutionConsumer class ------- *)

\* the value undefined of a field that is written but has no value
Undefined == "undefined"

\* the guards of ExecutionConsumer.apply, in the order of the code
ConsumerRejection(evt, o, seenIds) ==
    IF evt.eventId \in seenIds THEN "duplicate"
    ELSE IF evt.orderId # o.id THEN "wrong_order"
    ELSE IF evt.executedQuantity <= 0 THEN "invalid_qty"
    ELSE IF o.status = "FILLED" THEN "already_filled"
    ELSE "none"

\* the effective quantity without the cap at the remaining quantity
ConsumerEffectiveUncapped(evt, o) ==
    evt.executedQuantity

\* Math.min(evt.executedQuantity, remaining)
ConsumerEffective(evt, o) ==
    Min(evt.executedQuantity, o.quantity - o.filledQuantity)

\* ExecutionConsumer.apply(evt) on st = [order, account, seen, appliedCount,
\* rejectedCount]: the state it leaves and the value it returns
ConsumerApply(evt, st) ==
    LET r == ConsumerRejection(evt, st.order, st.seen) IN
    IF r # "none"
    THEN [st EXCEPT !.rejectedCount = @ + 1,
                    !.result = [applied |-> FALSE, reason |-> r]]
    ELSE
      LET effective == ConsumerEffective(evt, st.order)
          filled == st.order.filledQuantity + effective
      IN [order |-> [st.order EXCEPT
                        !.filledQuantity = filled,
                        !.status = IF filled = st.order.quantity THEN "FILLED"
                                   ELSE IF filled > 0 THEN "PARTIALLY_FILLED"
                                   ELSE "OPEN"],
          account |-> [st.account EXCEPT !.balance = @ - effective],
          seen |-> st.seen \cup {evt.eventId},
          appliedCount |-> st.appliedCount + 1,
          rejectedCount |-> st.rejectedCount,
          result |-> [applied |-> TRUE,
                      reason |-> IF effective < evt.executedQuantity
                                 THEN "capped" ELSE Undefined,
                      effectiveQuantity |-> effective]]

\* ExecutionConsumer.getMetrics() when the fields hold the given values
getMetrics(appliedCount, rejectedCount, seenIds) ==
    [appliedCount |-> appliedCount,
     rejectedCount |-> rejectedCount,
     seenCount |-> Cardinality(seenIds),
     duplicateCount |-> rejectedCount
                          - (appliedCount + rejectedCount - Cardinality(seenIds))]

\* assertInvariants() throws
AssertInvariantsThrows(o, a, initialBalance) ==
    \/ o.filledQuantity < 0
    \/ o.filledQuantity > o.quantity
    \/ o.filledQuantity = 0 /\ o.status # "OPEN"
    \/ o.filledQuantity > 0 /\ o.filledQuantity < o.quantity
          /\ o.status # "PARTIALLY_FILLED"
    \/ o.filledQuantity = o.quantity /\ o.status # "FILLED"
    \/ a.balance > initialBalance

\* the events handed to apply
ConsumerEvents == { e \in ExecutionEvent : e.type = "execution" }

\* new ExecutionConsumer(order, account) with a consistent order
InitClass ==
    /\ InitEngineUnused
    /\ InitNoDelivery
    /\ InitNoConsumer
    /\ InitNoServers
    /\ InitNoExecuteOrder
    /\ InitNoDemo
    /\ InitNoSystem
    /\ \E o \in InitialOrders :
          ecOrder = [id |-> o.id, quantity |-> o.quantity,
                     filledQuantity |-> o.filledQuantity, status |-> o.status]
    /\ ecAccount = [balance |-> InitialBalance]
    /\ ecSeen = {}
    /\ ecInitialBalance = ecAccount.balance
    /\ ecAppliedCount = 0
    /\ ecRejectedCount = 0
    /\ ecCalls = [total |-> 0, applied |-> 0, duplicates |-> 0]
    /\ ecLast = [op |-> "new", evt |-> NoEvent, result |-> NoValue]

ClassUnchanged ==
    UNCHANGED <<engineVars, deliveryVars, consumerVars, serverVars, executeVars,
                demoVars, systemVars>>

\* consumer.apply(evt)
ConsumerApplyCall(evt) ==
    LET out == ConsumerApply(evt, [order |-> ecOrder, account |-> ecAccount,
                                   seen |-> ecSeen,
                                   appliedCount |-> ecAppliedCount,
                                   rejectedCount |-> ecRejectedCount,
                                   result |-> NoValue])
    IN
    /\ ecCalls.total < MaxCalls
    /\ ecOrder' = out.order
    /\ ecAccount' = out.account
    /\ ecSeen' = out.seen
    /\ ecAppliedCount' = out.appliedCount
    /\ ecRejectedCount' = out.rejectedCount
    /\ ecCalls' = [total |-> ecCalls.total + 1,
                   applied |-> ecCalls.applied
                        + (IF out.result.applied THEN 1 ELSE 0),
                   duplicates |-> ecCalls.duplicates
                        + (IF ~out.result.applied /\ out.result.reason = "duplicate"
                           THEN 1 ELSE 0)]
    /\ ecLast' = [op |-> "apply", evt |-> evt, result |-> out.result]
    /\ UNCHANGED ecInitialBalance
    /\ ClassUnchanged

\* consumer.clearCache()
ConsumerClearCache ==
    /\ ecSeen' = {}
    /\ ecLast' = [op |-> "clearCache", evt |-> NoEvent, result |-> NoValue]
    /\ UNCHANGED <<ecOrder, ecAccount, ecInitialBalance, ecAppliedCount,
                   ecRejectedCount, ecCalls>>
    /\ ClassUnchanged

NextClass ==
    \/ \E evt \in ConsumerEvents : ConsumerApplyCall(evt)
    \/ ConsumerClearCache

SpecClass == InitClass /\ [][NextClass]_vars

\* a consumer on which only apply is called
NextClassApply ==
    \E evt \in ConsumerEvents : ConsumerApplyCall(evt)

SpecClassApply == InitClass /\ [][NextClassApply]_vars

(* ------ server.ts startWsServer.broadcast to a connectAndConsume client --- *)

\* how many times broadcast is called
MaxBroadcasts == 3

\* broadcast sends to a client without looking at its readyState
SendsToAnyState(readyState) ==
    TRUE

\* client.readyState === WebSocket.OPEN
SendsTo(readyState) ==
    readyState = "OPEN"

\* the events passed to broadcast: the valid executions for the engine's
\* order among those sent to consumers, and the event of another type
BroadcastEvents ==
    { e \in SentEvents :
        e.type = "execution" => (e.orderId = OrderId /\ e.executedQuantity > 0) }

\* the client has been created by connectAndConsume and its socket is in
\* wss.clients, not yet open; the engine holds a new order
InitBroadcast ==
    /\ InitEngine
    /\ order.filledQuantity = 0
    /\ order.side = "BUY"
    /\ InitNoDelivery
    /\ InitNoConsumer
    /\ InitNoServers
    /\ InitNoExecuteOrder
    /\ InitNoDemo
    /\ InitNoClass
    /\ InitNoStart
    /\ InitNoRegistry
    /\ bcReadyState = "CONNECTING"
    /\ bcQueue = <<>>
    /\ bcCalls = 0
    /\ bcSent = <<>>
    /\ bcHanded = <<>>

BroadcastUnchanged ==
    UNCHANGED <<deliveryVars, consumerVars, serverVars, executeVars, demoVars,
                classVars, startVars, registryVars>>

\* the handshake completes: the socket becomes OPEN
BroadcastConnect ==
    /\ bcReadyState = "CONNECTING"
    /\ bcReadyState' = "OPEN"
    /\ UNCHANGED <<bcQueue, bcCalls, bcSent, bcHanded>>
    /\ UNCHANGED engineVars
    /\ BroadcastUnchanged

\* client.close(): the socket leaves OPEN; the frames written before stay on
\* their way to the client, whose handler is still attached
BroadcastClose ==
    /\ bcReadyState = "OPEN"
    /\ bcReadyState' = "CLOSED"
    /\ UNCHANGED <<bcQueue, bcCalls, bcSent, bcHanded>>
    /\ UNCHANGED engineVars
    /\ BroadcastUnchanged

\* server.broadcast(event): JSON.stringify, then client.send(payload) to the
\* client if its readyState is OPEN
BroadcastCall(evt) ==
    /\ bcCalls < MaxBroadcasts
    /\ bcCalls' = bcCalls + 1
    /\ bcQueue' = IF SendsTo(bcReadyState)
                  THEN Append(bcQueue, JsonOf(evt))
                  ELSE bcQueue
    /\ bcSent' = IF bcReadyState = "OPEN" THEN Append(bcSent, evt) ELSE bcSent
    /\ UNCHANGED <<bcReadyState, bcHanded>>
    /\ UNCHANGED engineVars
    /\ BroadcastUnchanged

\* ws.on("message") runs to completion on the oldest payload in flight
BroadcastOnMessage ==
    /\ bcQueue # <<>>
    /\ bcQueue' = Tail(bcQueue)
    /\ IF OnMessageOutcome(Head(bcQueue)) = "apply"
       THEN /\ EngineApplyJs(Head(bcQueue).value)
            /\ bcHanded' = Append(bcHanded, Head(bcQueue).value)
       ELSE /\ lastOp' = "drop"
            /\ lastEvt' = Head(bcQueue)
            /\ result' = NoValue
            /\ pre' = Snapshot
            /\ UNCHANGED <<order, account, processedEventIds, everApplied,
                           sinceClear>>
            /\ UNCHANGED bcHanded
    /\ UNCHANGED <<bcReadyState, bcCalls, bcSent>>
    /\ BroadcastUnchanged

NextBroadcast ==
    \/ BroadcastConnect
    \/ BroadcastClose
    \/ \E evt \in BroadcastEvents : BroadcastCall(evt)
    \/ BroadcastOnMessage

SpecBroadcast == InitBroadcast /\ [][NextBroadcast]_vars

\* the client's event loop keeps dispatching the messages received
SpecBroadcastFair == SpecBroadcast /\ WF_vars(BroadcastOnMessage)

(* ------------------- mockEngine.js: start() of the service --------------- *)

\* the attempts each init function makes before it gives up
MaxConnectAttempts == 10

\* a loop that goes round once more after the last failure
MayRetryOnceMore(attempts) ==
    attempts <= MaxConnectAttempts

\* while (attempts < 10)
MayRetry(attempts) ==
    attempts < MaxConnectAttempts

Null == "null"

Services == {"postgres", "redis"}

\* the calls awaited in the try block resolve, or one of them rejects
AttemptOutcomes == {"resolves", "rejects"}

\* node launches the script: start() is called with both clients null
InitStart ==
    /\ InitEngineUnused
    /\ InitNoDelivery
    /\ InitNoConsumer
    /\ InitNoServers
    /\ InitNoExecuteOrder
    /\ InitNoDemo
    /\ InitNoClass
    /\ InitNoBroadcast
    /\ InitNoRegistry
    /\ stPc = "initPostgres"
    /\ stAttempts = 0
    /\ stTried = [s \in Services |-> [attempts |-> 0, failed |-> 0]]
    /\ stPgClient = Null
    /\ stRedisClient = Null
    /\ stServers = [http |-> FALSE, ws |-> FALSE]
    /\ stExitCode = [called |-> FALSE]
    /\ stHealth = NoValue

StartUnchanged ==
    UNCHANGED <<engineVars, deliveryVars, consumerVars, serverVars, executeVars,
                demoVars, classVars, broadcastVars, registryVars>>

\* one round of the loop of initPostgres: pool.connect(), the query and
\* release; on success the pool is returned and assigned to pgClient, on
\* failure attempts++ and a second of sleep
PostgresAttempt(outcome) ==
    /\ stPc = "initPostgres"
    /\ MayRetry(stAttempts)
    /\ stTried' = [stTried EXCEPT
                      !["postgres"].attempts = @ + 1,
                      !["postgres"].failed = IF outcome = "rejects" THEN @ + 1 ELSE @]
    /\ IF outcome = "resolves"
       THEN /\ stPgClient' = "pool"
            /\ stPc' = "initRedis"
            /\ stAttempts' = 0
       ELSE /\ stAttempts' = stAttempts + 1
            /\ UNCHANGED <<stPgClient, stPc>>
    /\ UNCHANGED <<stRedisClient, stServers, stExitCode, stHealth>>
    /\ StartUnchanged

\* one round of the loop of initRedis: client.connect(); on success the
\* client is returned and assigned to redisClient
RedisAttempt(outcome) ==
    /\ stPc = "initRedis"
    /\ MayRetry(stAttempts)
    /\ stTried' = [stTried EXCEPT
                      !["redis"].attempts = @ + 1,
                      !["redis"].failed = IF outcome = "rejects" THEN @ + 1 ELSE @]
    /\ IF outcome = "resolves"
       THEN /\ stRedisClient' = "client"
            /\ stPc' = "initSchema"
            /\ stAttempts' = 0
       ELSE /\ stAttempts' = stAttempts + 1
            /\ UNCHANGED <<stRedisClient, stPc>>
    /\ UNCHANGED <<stPgClient, stServers, stExitCode, stHealth>>
    /\ StartUnchanged

\* the loop of an init function ends without a connection: it throws, and
\* the catch of start() calls process.exit(1)
StartFails ==
    /\ stPc \in {"initPostgres", "initRedis"}
    /\ ~MayRetry(stAttempts)
    /\ stPc' = "exited"
    /\ stExitCode' = [called |-> TRUE, code |-> 1]
    /\ UNCHANGED <<stAttempts, stTried, stPgClient, stRedisClient, stServers,
                   stHealth>>
    /\ StartUnchanged

\* initSchema(): the query succeeds, or fails and the error is only logged;
\* then the HTTP server and the WebSocket server are started and the
\* service is ready
StartServers(schemaOutcome) ==
    /\ stPc = "initSchema"
    /\ stPc' = "ready"
    /\ stServers' = [http |-> TRUE, ws |-> TRUE]
    /\ UNCHANGED <<stAttempts, stTried, stPgClient, stRedisClient, stExitCode,
                   stHealth>>
    /\ StartUnchanged

\* the body the HTTP server answers to GET /health
HealthBody(pg, rd) ==
    [ok |-> TRUE,
     postgres |-> IF pg # Null THEN "connected" ELSE "disconnected",
     redis |-> IF rd # Null THEN "connected" ELSE "disconnected"]

\* GET /health, answered once the HTTP server has been started
StartHealthRequest ==
    /\ stServers.http
    /\ stHealth' = HealthBody(stPgClient, stRedisClient)
    /\ stHealth' # stHealth
    /\ UNCHANGED <<stPc, stAttempts, stTried, stPgClient, stRedisClient,
                   stServers, stExitCode>>
    /\ StartUnchanged

\* the steps of start() itself
StartStep ==
    \/ \E outcome \in AttemptOutcomes : PostgresAttempt(outcome)
    \/ \E outcome \in AttemptOutcomes : RedisAttempt(outcome)
    \/ StartFails
    \/ \E schemaOutcome \in AttemptOutcomes : StartServers(schemaOutcome)

NextStart ==
    \/ StartStep
    \/ StartHealthRequest

SpecStart == InitStart /\ [][NextStart]_vars

\* every awaited call settles and the event loop runs what is ready
SpecStartFair == SpecStart /\ WF_vars(StartStep)

(* --------- mockEngine.js: createWsServer and the set wsClients ----------- *)

\* how many sockets connect to the WebSocket server
MaxSockets == 2

Sockets == 1..MaxSockets

\* the error handler leaving the socket in the set
AfterErrorKeeps(clients, ws) ==
    clients

\* ws.on("error"): wsClients.delete(ws)
AfterError(clients, ws) ==
    clients \ {ws}

\* client.readyState === 1
ReadyStateIsOpen(readyState) ==
    readyState = "OPEN"

\* the clients the execution event is sent to
BroadcastRecipients(clients, readyState) ==
    { client \in clients : ReadyStateIsOpen(readyState[client]) }

\* the server is listening and no socket has connected
InitRegistry ==
    /\ InitEngineUnused
    /\ InitNoDelivery
    /\ InitNoConsumer
    /\ InitNoServers
    /\ InitNoExecuteOrder
    /\ InitNoDemo
    /\ InitNoClass
    /\ InitNoBroadcast
    /\ InitNoStart
    /\ wsClients = {}
    /\ wsReadyState = [ws \in Sockets |-> "none"]
    /\ wsEvents = [ws \in Sockets |-> {}]
    /\ wsHealth = NoValue
    /\ wsBroadcast = NoValue

RegistryUnchanged ==
    UNCHANGED <<engineVars, deliveryVars, consumerVars, serverVars, executeVars,
                demoVars, classVars, broadcastVars, startVars>>

\* wss.on("connection"): the socket is open and is added to the set
WsConnection(ws) ==
    /\ wsReadyState[ws] = "none"
    /\ wsReadyState' = [wsReadyState EXCEPT ![ws] = "OPEN"]
    /\ wsClients' = wsClients \cup {ws}
    /\ wsEvents' = [wsEvents EXCEPT ![ws] = @ \cup {"connection"}]
    /\ UNCHANGED <<wsHealth, wsBroadcast>>
    /\ RegistryUnchanged

\* the closing handshake starts: readyState is CLOSING until the close event
WsClosing(ws) ==
    /\ wsReadyState[ws] = "OPEN"
    /\ wsReadyState' = [wsReadyState EXCEPT ![ws] = "CLOSING"]
    /\ UNCHANGED <<wsClients, wsEvents, wsHealth, wsBroadcast>>
    /\ RegistryUnchanged

\* ws.on("error"): the socket is deleted from the set; its readyState is
\* what it was or CLOSING, and its close event follows
WsError(ws) ==
    /\ wsReadyState[ws] \in {"OPEN", "CLOSING"}
    /\ "error" \notin wsEvents[ws]
    /\ \E readyState \in {wsReadyState[ws], "CLOSING"} :
          wsReadyState' = [wsReadyState EXCEPT ![ws] = readyState]
    /\ wsClients' = AfterError(wsClients, ws)
    /\ wsEvents' = [wsEvents EXCEPT ![ws] = @ \cup {"error"}]
    /\ UNCHANGED <<wsHealth, wsBroadcast>>
    /\ RegistryUnchanged

\* ws.on("close"): the socket is closed and is deleted from the set
WsClose(ws) ==
    /\ wsReadyState[ws] \in {"OPEN", "CLOSING"}
    /\ wsReadyState' = [wsReadyState EXCEPT ![ws] = "CLOSED"]
    /\ wsClients' = wsClients \ {ws}
    /\ wsEvents' = [wsEvents EXCEPT ![ws] = @ \cup {"close"}]
    /\ UNCHANGED <<wsHealth, wsBroadcast>>
    /\ RegistryUnchanged

\* GET /health: the body carries wsClients.size
WsHealthRequest ==
    /\ wsHealth' = [wsClients |-> Cardinality(wsClients), events |-> wsEvents]
    /\ wsHealth' # wsHealth
    /\ UNCHANGED <<wsClients, wsReadyState, wsEvents, wsBroadcast>>
    /\ RegistryUnchanged

\* POST /execute has applied an execution: the event is sent to the clients
\* of the set whose readyState is OPEN
WsBroadcastExecution ==
    /\ wsBroadcast' = [sentTo |-> BroadcastRecipients(wsClients, wsReadyState),
                       readyState |-> wsReadyState,
                       events |-> wsEvents]
    /\ wsBroadcast' # wsBroadcast
    /\ UNCHANGED <<wsClients, wsReadyState, wsEvents, wsHealth>>
    /\ RegistryUnchanged

NextRegistry ==
    \/ \E ws \in Sockets : WsConnection(ws)
    \/ \E ws \in Sockets : WsClosing(ws)
    \/ \E ws \in Sockets : WsError(ws)
    \/ \E ws \in Sockets : WsClose(ws)
    \/ WsHealthRequest
    \/ WsBroadcastExecution

SpecRegistry == InitRegistry /\ [][NextRegistry]_vars

(* --------------------------- claim helpers ------------------------------ *)

\* the last call was applyExecution and it returned applied: true
Applied == lastOp = "apply" /\ result.applied

\* the last call was applyExecution and it returned applied: false
Rejected == lastOp = "apply" /\ ~result.applied

\* the result has a reason field
HasReason(r) == "reason" \in DOMAIN r

\* what remained to fill before the last call
RemainingBefore == pre.order.quantity - pre.order.filledQuantity

\* what the last call added to filledQuantity
FilledDelta == order.filledQuantity - pre.order.filledQuantity

\* the outcome of delivering an identical copy of the last event now
Again == applyExecution(lastEvt, order, account, processedEventIds)

\* order and account are what they were before the last call
OrderAccountUntouched ==
    /\ order.filledQuantity = pre.order.filledQuantity
    /\ order.status = pre.order.status
    /\ account.balance = pre.account.balance

(* ------------------------------- C1 ------------------------------------- *)

\* C1 (as stated): after applyExecution(e), for every event e, a second
\* applyExecution on an identical copy of e leaves filledQuantity, status and
\* balance as they are and returns applied=false, reason duplicate_event.
C1_IdempotenceAnyEvent ==
    lastOp = "apply" =>
        /\ Again.order.filledQuantity = order.filledQuantity
        /\ Again.order.status = order.status
        /\ Again.account.balance = account.balance
        /\ Again.result = [applied |-> FALSE, reason |-> "duplicate_event"]

\* C1 (amended): the second call leaves filledQuantity, status and balance as
\* they are and returns applied=false; its reason is duplicate_event when the
\* first call applied e, and the first call's rejection reason otherwise.
C1_Idempotence ==
    lastOp = "apply" =>
        /\ Again.order.filledQuantity = order.filledQuantity
        /\ Again.order.status = order.status
        /\ Again.account.balance = account.balance
        /\ Again.result.applied = FALSE
        /\ result.applied => Again.result.reason = "duplicate_event"
        /\ ~result.applied => Again.result = result

\* C1 witness: e was applied to an order it left PARTIALLY_FILLED, so a second
\* application would fill again were it not recognised as a duplicate.
C1_Witness ==
    /\ Applied
    /\ order.status = "PARTIALLY_FILLED"
    /\ Again.result.reason = "duplicate_event"

(* ------------------------------- C2 ------------------------------------- *)

\* C2 (as stated): in any sequence of applyExecution, getProcessedEventIds and
\* clearProcessedEvents calls, once an eventId has been applied no later
\* delivery of that eventId changes filledQuantity, status or balance.
C2_ExactlyOnceLifetime ==
    [][(lastOp' = "apply" /\ lastEvt'.eventId \in everApplied) =>
          /\ order'.filledQuantity = order.filledQuantity
          /\ order'.status = order.status
          /\ account'.balance = account.balance]_vars

\* C2 (amended): once an eventId has been applied, and as long as
\* clearProcessedEvents has not been called since, no later delivery of that
\* eventId changes filledQuantity, status or balance.
C2_ExactlyOnceSinceClear ==
    [][(lastOp' = "apply" /\ lastEvt'.eventId \in sinceClear) =>
          /\ order'.filledQuantity = order.filledQuantity
          /\ order'.status = order.status
          /\ account'.balance = account.balance]_vars

\* C2 witness: an otherwise valid event with an already applied eventId is
\* delivered to a non-FILLED order after another event was applied in between.
C2_Witness ==
    /\ Rejected
    /\ result.reason = "duplicate_event"
    /\ lastEvt.orderId = order.id
    /\ lastEvt.executedQuantity > 0
    /\ order.status = "PARTIALLY_FILLED"
    /\ lastEvt.eventId \in sinceClear
    /\ Cardinality(sinceClear) >= 2

(* ------------------------------- C3 ------------------------------------- *)

\* C3: no overfill: after every call 0 <= filledQuantity <= quantity.
C3_NoOverfill ==
    /\ 0 <= order.filledQuantity
    /\ order.filledQuantity <= order.quantity

\* C3 witness: an event asking for more than what remained was applied.
C3_Witness ==
    /\ Applied
    /\ lastEvt.executedQuantity > RemainingBefore
    /\ pre.order.filledQuantity > 0

(* ------------------------------- C4 ------------------------------------- *)

\* C4: status consistency: OPEN iff filledQuantity = 0, PARTIALLY_FILLED iff
\* 0 < filledQuantity < quantity, FILLED iff filledQuantity = quantity.
C4_StatusConsistency ==
    /\ order.status = "OPEN" <=> order.filledQuantity = 0
    /\ order.status = "PARTIALLY_FILLED" <=>
           (0 < order.filledQuantity /\ order.filledQuantity < order.quantity)
    /\ order.status = "FILLED" <=> order.filledQuantity = order.quantity

\* C4 witness: an apply moved the order from PARTIALLY_FILLED to FILLED.
C4_Witness ==
    /\ Applied
    /\ pre.order.status = "PARTIALLY_FILLED"
    /\ order.status = "FILLED"

(* ------------------------------- C5 ------------------------------------- *)

\* C5 (as stated): once the status is FILLED, every later applyExecution call
\* returns applied=false with reason already_filled and leaves filledQuantity,
\* status and balance unchanged.
C5_TerminalAlwaysAlreadyFilled ==
    (lastOp = "apply" /\ pre.order.status = "FILLED") =>
        /\ result = [applied |-> FALSE, reason |-> "already_filled"]
        /\ OrderAccountUntouched

\* C5 (amended): once the status is FILLED, every later applyExecution call
\* returns applied=false and leaves filledQuantity, status and balance
\* unchanged; the reason is already_filled when the event has type execution,
\* an unprocessed eventId, the matching orderId and a positive quantity (an
\* earlier check in the chain gives its own reason otherwise).
C5_Terminal ==
    (lastOp = "apply" /\ pre.order.status = "FILLED") =>
        /\ result.applied = FALSE
        /\ OrderAccountUntouched
        /\ (/\ lastEvt.type = "execution"
            /\ lastEvt.eventId \notin pre.processed
            /\ lastEvt.orderId = pre.order.id
            /\ lastEvt.executedQuantity > 0) => result.reason = "already_filled"

\* C5 witness: a never-applied eventId with the matching orderId and a positive
\* quantity was delivered to a FILLED order.
C5_Witness ==
    /\ lastOp = "apply"
    /\ pre.order.status = "FILLED"
    /\ lastEvt.type = "execution"
    /\ lastEvt.eventId \notin everApplied
    /\ lastEvt.orderId = pre.order.id
    /\ lastEvt.executedQuantity > 0
    /\ result.reason = "already_filled"

(* ------------------------------- C6 ------------------------------------- *)

\* C6: balance sign convention: on every successful apply the balance changes
\* by exactly the effective (capped) quantity, strictly decreasing for a BUY
\* order and strictly increasing for a SELL order.
C6_BalanceSign ==
    Applied =>
        /\ FilledDelta > 0
        /\ order.side = "BUY" => account.balance = pre.account.balance - FilledDelta
        /\ order.side = "SELL" => account.balance = pre.account.balance + FilledDelta

(* ------------------------------- C7 ------------------------------------- *)

\* C7: overfill capping: a successful apply increases filledQuantity by exactly
\* min(executedQuantity, quantity - filledQuantity); an event is never rejected
\* for asking too much; the result carries reason capped_overfill iff
\* executedQuantity > remaining, and no reason otherwise.
C7_OverfillCapping ==
    /\ Applied =>
          /\ FilledDelta = Min(lastEvt.executedQuantity, RemainingBefore)
          /\ HasReason(result) <=> lastEvt.executedQuantity > RemainingBefore
          /\ HasReason(result) => result.reason = "capped_overfill"
    /\ (/\ lastOp = "apply"
        /\ lastEvt.type = "execution"
        /\ lastEvt.eventId \notin pre.processed
        /\ lastEvt.orderId = pre.order.id
        /\ pre.order.status # "FILLED"
        /\ lastEvt.executedQuantity > RemainingBefore) => result.applied

\* C7 witness: an event asking for exactly what remained was applied, and the
\* result carries no reason.
C7_Witness ==
    /\ Applied
    /\ lastEvt.executedQuantity = RemainingBefore
    /\ pre.order.status = "PARTIALLY_FILLED"
    /\ ~HasReason(result)

(* ------------------------------- C8 ------------------------------------- *)

\* C8: the result of every successful apply carries effectiveQuantity, equal
\* to the amount by which filledQuantity was increased.
C8_EffectiveQuantityReturned ==
    Applied =>
        /\ "effectiveQuantity" \in DOMAIN result
        /\ result.effectiveQuantity = FilledDelta

(* ------------------------------- C9 ------------------------------------- *)

\* the five rejection conditions of the last call, each on its own
IsUnsupported == lastEvt.type # "execution"

IsDuplicate == lastEvt.eventId \in pre.processed

IsUnknownOrder == lastEvt.orderId # pre.order.id

IsInvalidQuantity == lastEvt.executedQuantity <= 0

IsAlreadyFilled == pre.order.status = "FILLED"

\* C9: rejection precedence: the reported reason is the first matching one in
\* the order unsupported_event, duplicate_event, unknown_order,
\* invalid_executed_quantity, already_filled.
C9_RejectionPrecedence ==
    lastOp = "apply" =>
        /\ IsUnsupported => result = [applied |-> FALSE, reason |-> "unsupported_event"]
        /\ (~IsUnsupported /\ IsDuplicate) =>
               result = [applied |-> FALSE, reason |-> "duplicate_event"]
        /\ (~IsUnsupported /\ ~IsDuplicate /\ IsUnknownOrder) =>
               result = [applied |-> FALSE, reason |-> "unknown_order"]
        /\ (~IsUnsupported /\ ~IsDuplicate /\ ~IsUnknownOrder /\ IsInvalidQuantity) =>
               result = [applied |-> FALSE, reason |-> "invalid_executed_quantity"]
        /\ (~IsUnsupported /\ ~IsDuplicate /\ ~IsUnknownOrder /\ ~IsInvalidQuantity
               /\ IsAlreadyFilled) =>
               result = [applied |-> FALSE, reason |-> "already_filled"]
        /\ (~IsUnsupported /\ ~IsDuplicate /\ ~IsUnknownOrder /\ ~IsInvalidQuantity
               /\ ~IsAlreadyFilled) => result.applied

\* C9 witness: an already processed eventId arrived with a wrong orderId and a
\* non-positive quantity at a FILLED order, and was reported as duplicate_event.
C9_Witness ==
    /\ lastOp = "apply"
    /\ ~IsUnsupported
    /\ IsDuplicate
    /\ IsUnknownOrder
    /\ IsInvalidQuantity
    /\ IsAlreadyFilled
    /\ result.reason = "duplicate_event"

(* ------------------------------- C10 ------------------------------------ *)

RejectionReasons ==
    {"unsupported_event", "duplicate_event", "unknown_order",
     "invalid_executed_quantity", "already_filled"}

\* C10: rejection is side-effect free: a call that returns applied=false
\* leaves filledQuantity, status, balance and the processed-event set
\* unchanged and reports one of the five rejection reasons in its result.
C10_RejectionSideEffectFree ==
    Rejected =>
        /\ order = pre.order
        /\ account = pre.account
        /\ processedEventIds = pre.processed
        /\ HasReason(result)
        /\ result.reason \in RejectionReasons

\* C10 witness: a never-processed eventId was rejected for its quantity while
\* the order was PARTIALLY_FILLED.
C10_Witness ==
    /\ Rejected
    /\ result.reason = "invalid_executed_quantity"
    /\ lastEvt.eventId \notin everApplied
    /\ pre.order.status = "PARTIALLY_FILLED"
    /\ pre.processed # {}

(* ------------------------------- C11 ------------------------------------ *)

\* C11: recording follows mutation: an eventId enters the processed set only
\* through an applyExecution call that mutated the order and returned
\* applied=true, and is in the set when that call has returned; the set is
\* exactly the eventIds applied since the last reset (since construction when
\* there was none), so rejected events are never recorded.
C11_RecordingFollowsMutation ==
    /\ processedEventIds = sinceClear
    /\ processedEventIds \subseteq everApplied
    /\ lastOp = "apply" =>
          /\ pre.processed \subseteq processedEventIds
          /\ (processedEventIds \ pre.processed) \subseteq {lastEvt.eventId}
          /\ processedEventIds # pre.processed => (result.applied /\ FilledDelta > 0)
          /\ result.applied => lastEvt.eventId \in processedEventIds
          /\ ~result.applied => processedEventIds = pre.processed
    /\ lastOp = "get" => processedEventIds = pre.processed

\* C11 witness: an event with a never-recorded eventId was rejected for its
\* orderId by an engine that had recorded another event; its id is not in the set.
C11_Witness ==
    /\ Rejected
    /\ result.reason = "unknown_order"
    /\ lastEvt.eventId \notin processedEventIds
    /\ processedEventIds # {}
    /\ order.status = "PARTIALLY_FILLED"

(* ------------------------------- C14 ------------------------------------ *)

StatusRank(s) ==
    CASE s = "OPEN" -> 0
      [] s = "PARTIALLY_FILLED" -> 1
      [] s = "FILLED" -> 2

\* C14: status state machine: over every call the status only moves forward
\* (OPEN, then PARTIALLY_FILLED, then FILLED), never returns to OPEN or leaves
\* FILLED, and filledQuantity never decreases.
C14_StatusForward ==
    /\ StatusRank(pre.order.status) <= StatusRank(order.status)
    /\ pre.order.status = "FILLED" => order.status = "FILLED"
    /\ order.status = "OPEN" => pre.order.status = "OPEN"
    /\ pre.order.filledQuantity <= order.filledQuantity

\* C14 witness: one apply took the order from OPEN straight to FILLED.
C14_Witness ==
    /\ Applied
    /\ pre.order.status = "OPEN"
    /\ order.status = "FILLED"
    /\ order.quantity > 1

(* ------------------------------- C16 ------------------------------------ *)

\* C16: reset of dedup memory: clearProcessedEvents empties the processed set
\* and changes nothing else; afterwards an event whose eventId was applied
\* before the reset (and not since) is treated as new: if it is otherwise valid
\* and the order is not FILLED, it is applied and filledQuantity grows by its
\* capped quantity.
C16_Reset ==
    /\ lastOp = "clear" =>
          /\ processedEventIds = {}
          /\ order = pre.order
          /\ account = pre.account
    /\ \A e \in ExecutionEvent :
          (/\ e.type = "execution"
           /\ e.eventId \in everApplied \ sinceClear
           /\ e.orderId = order.id
           /\ e.executedQuantity > 0
           /\ order.status # "FILLED") =>
              LET out == applyExecution(e, order, account, processedEventIds) IN
              /\ out.result.applied
              /\ out.order.filledQuantity =
                    order.filledQuantity +
                    Min(e.executedQuantity, order.quantity - order.filledQuantity)

\* C16 witness: the reset emptied a non-empty set while the order still had
\* quantity to fill.
C16_Witness ==
    /\ lastOp = "clear"
    /\ pre.processed # {}
    /\ processedEventIds = {}
    /\ order.status = "PARTIALLY_FILLED"

(* ------------------------------- C15 ------------------------------------ *)

\* C15: defensive copy: adding to or deleting from the set returned by
\* getProcessedEventIds never changes the engine's processed set, so in every
\* state an event is rejected as a duplicate exactly when its eventId was
\* applied since the last reset.
C15_DefensiveCopy ==
    /\ lastOp = "mutate" =>
          /\ processedEventIds = pre.processed
          /\ order = pre.order
          /\ account = pre.account
    /\ \A e \in ExecutionEvent :
          e.type = "execution" =>
             LET out == applyExecution(e, order, account, processedEventIds) IN
             (~out.result.applied /\ out.result.reason = "duplicate_event")
                 <=> e.eventId \in sinceClear

\* C15 witness: the caller has added an id the engine never processed to the
\* returned set and deleted one the engine did process.
C15_Witness ==
    /\ lastOp = "mutate"
    /\ processedEventIds # {}
    /\ result.set \ processedEventIds # {}
    /\ processedEventIds \ result.set # {}

(* ------------------------------- C13 ------------------------------------ *)

\* C13: delivery-order and duplication independence: once every event of the
\* pool (events with pairwise different eventIds) has been delivered, in any
\* order and any number of times each, filledQuantity, status and balance are
\* what one delivery of each event in eventId order gives.
C13_OrderIndependence ==
    seen = pool =>
        LET once == DeliveredOnceInIdOrder(pool, initial) IN
        /\ order.filledQuantity = once.order.filledQuantity
        /\ order.status = once.order.status
        /\ account.balance = once.account.balance

\* C13 witness: every event of a pool of at least two was delivered, and the
\* last delivery found the order filled by the others: it was rejected as
\* already_filled without ever being recorded.
C13_Witness ==
    /\ seen = pool
    /\ Cardinality(pool) >= 2
    /\ Rejected
    /\ result.reason = "already_filled"
    /\ lastEvt.eventId \notin processedEventIds
    /\ initial.order.status # "FILLED"

\* C12: deliveries reaching one engine through several connections are each
\* handled in one indivisible step, so at most one delivery of each eventId is
\* ever applied (whichever connection carried it) and the applies together
\* never bring filledQuantity above quantity
C12_CriticalSection ==
    /\ \A id \in DOMAIN appliedBy : Len(appliedBy[id]) <= 1
    /\ order.filledQuantity <= order.quantity
    /\ order.filledQuantity >= 0

\* connection B's delivery of an eventId is rejected as a duplicate after
\* connection A's delivery of it was applied, while A has another in flight
C12_Witness ==
    /\ lastOp = "apply"
    /\ handled = "B"
    /\ inbox["A"] # Empty
    /\ Rejected
    /\ result.reason = "duplicate_event"
    /\ appliedBy[lastEvt.eventId] = <<"A">>
    /\ order.filledQuantity = order.quantity

\* C18: the message handler drops data that is not JSON or whose type is not
\* "execution" without calling applyExecution and without changing the engine,
\* and the engine stays exactly where the execution messages alone put it
C18_DropsAndContinues ==
    /\ lastOp = "apply" => IsExecutionMessage(JsonOf(lastEvt))
    /\ lastOp = "drop" =>
          /\ ~IsExecutionMessage(lastEvt)
          /\ Snapshot = pre
          /\ result = NoValue
    /\ Snapshot = shadow

\* unparsable data is dropped after an execution was applied and while
\* another execution is still in flight
C18_Witness ==
    /\ lastOp = "drop"
    /\ lastEvt = Garbage
    /\ order.filledQuantity > 0
    /\ \E c \in Connections : inbox[c] # Empty /\ IsExecutionMessage(inbox[c])

\* C20: an execution message that lacks eventId, orderId or executedQuantity
\* (the fields it carries being valid for the order) is rejected and leaves
\* the order's filledQuantity and status and the account's balance unchanged
C20_PartialMessageRejected ==
    (lastOp = "apply" /\ lastEvt \in PartialEvents) =>
        /\ Rejected
        /\ order.filledQuantity = pre.order.filledQuantity
        /\ order.status = pre.order.status
        /\ account.balance = pre.account.balance

\* C17: of two POST /execute requests for the stored order that carry the same
\* eventId, the first is answered applied with that eventId echoed back, the
\* second is answered not applied with reason duplicate, and filled_quantity
\* has grown by the first request's quantity only
C17_ServerIdempotency ==
    \A r1, r2 \in Requests :
        ( /\ r1 < r2
          /\ handler[r1].pc = "done"
          /\ handler[r2].pc = "done"
          /\ \A r \in Requests \ {r1, r2} : handler[r].pc = "idle"
          /\ handler[r1].body # NoValue
          /\ handler[r2].body # NoValue
          /\ handler[r1].body.orderId = OrderId
          /\ handler[r2].body.orderId = OrderId
          /\ handler[r1].body.eventId = handler[r2].body.eventId )
        =>
        ( /\ handler[r1].response.applied
          /\ handler[r1].response.eventId = handler[r1].body.eventId
          /\ ~handler[r2].response.applied
          /\ handler[r2].response.reason = "duplicate"
          /\ row.filled_quantity = handler[r1].body.quantity )

\* C19: whatever requests came before, GET /health is answered 200 with the
\* JSON body {ok: true}, and every other method or request target is answered
\* 404
C19_HealthEndpoint ==
    \A i \in 1..Len(httpLog) :
        IF httpLog[i].method = "GET" /\ httpLog[i].url = "/health"
        THEN /\ httpLog[i].response.status = 200
             /\ httpLog[i].response.body = JsonOf([ok |-> TRUE])
        ELSE httpLog[i].response.status = 404

\* GET /health is answered 200 right after POST /health was answered 404
C19_Witness ==
    /\ Len(httpLog) >= 2
    /\ httpLog[Len(httpLog) - 1].method = "POST"
    /\ httpLog[Len(httpLog) - 1].url = "/health"
    /\ httpLog[Len(httpLog) - 1].response.status = 404
    /\ httpLog[Len(httpLog)].method = "GET"
    /\ httpLog[Len(httpLog)].url = "/health"
    /\ httpLog[Len(httpLog)].response.status = 200

\* C21: between applyExecution calls the fall of the balance since the engine
\* was constructed equals the rise of filledQuantity, and the status is the
\* one that goes with filledQuantity: no state shows one of the three updates
\* without the others
C21_Conservation ==
    /\ initial.account.balance - account.balance
          = order.filledQuantity - initial.order.filledQuantity
    /\ order.status = ConsistentStatus(order.filledQuantity, order.quantity)

\* a SELL order's capped fill has been applied after an earlier fill
C21_Witness ==
    /\ Applied
    /\ HasReason(result)
    /\ result.reason = "capped_overfill"
    /\ order.side = "SELL"
    /\ pre.order.filledQuantity > initial.order.filledQuantity
    /\ order.filledQuantity > pre.order.filledQuantity

\* C22: a second executeOrder call for the same execution (same quantity),
\* however long after the first, leaves filledQuantity, status and balance as
\* the first call left them
C22_ExecuteOrderIdempotent ==
    (eoCall # NoValue /\ eoCall.redelivery) =>
        /\ eoOrder.filledQuantity = eoCall.pre.order.filledQuantity
        /\ eoOrder.status = eoCall.pre.order.status
        /\ eoAccount.balance = eoCall.pre.account.balance

\* C23: after any executeOrder calls, with any quantities at any times,
\* 0 <= filledQuantity <= quantity, the status is the one that goes with
\* filledQuantity, and the balance has moved since the first call by exactly
\* the quantity filled, down for a BUY order and up for a SELL order
C23_ExecuteOrderInvariants ==
    /\ eoOrder.filledQuantity >= 0
    /\ eoOrder.filledQuantity <= eoOrder.quantity
    /\ eoOrder.status = ConsistentStatus(eoOrder.filledQuantity, eoOrder.quantity)
    /\ LET filledSince == eoOrder.filledQuantity - eoInitial.order.filledQuantity
       IN eoAccount.balance =
            IF eoOrder.side = "BUY"
            THEN eoInitial.account.balance - filledSince
            ELSE eoInitial.account.balance + filledSince

\* a SELL order has taken a negative quantity and then one larger than what
\* remained, which was capped
C23_Witness ==
    /\ eoCall # NoValue
    /\ eoCall.prev # NoValue
    /\ eoCall.prev.quantity < 0
    /\ eoOrder.side = "SELL"
    /\ eoCall.pre.order.filledQuantity > 0
    /\ eoCall.pre.order.filledQuantity < eoOrder.quantity
    /\ eoCall.quantity > eoOrder.quantity - eoCall.pre.order.filledQuantity
    /\ eoOrder.filledQuantity = eoOrder.quantity

\* C24: of two different executions with the same positive quantity, the
\* second is applied too, filling min(quantity, remaining), whenever the
\* order still has remaining quantity, however close in time the calls are
C24_GenuineExecutionApplied ==
    ( /\ eoCall # NoValue
      /\ ~eoCall.redelivery
      /\ eoCall.quantity > 0
      /\ eoCall.prev = [quantity |-> eoCall.quantity]
      /\ eoCall.pre.order.filledQuantity < eoCall.pre.order.quantity )
    => eoOrder.filledQuantity =
          eoCall.pre.order.filledQuantity
            + Min(eoCall.quantity,
                  eoCall.pre.order.quantity - eoCall.pre.order.filledQuantity)

\* no POST /execute handler is in progress
MockQuiescent == \A r \in Requests : handler[r].pc \in {"idle", "done"}

\* the request was for the stored order and its body was parsed
ForStoredOrder(r) ==
    /\ handler[r].pc # "idle"
    /\ handler[r].body # NoValue
    /\ handler[r].body.orderId = row.id

RECURSIVE QuantityRequested(_)
\* the sum of the quantities of the requests of S for the stored order
QuantityRequested(S) ==
    IF S = {} THEN 0
    ELSE LET r == CHOOSE x \in S : TRUE
         IN (IF ForStoredOrder(r) THEN handler[r].body.quantity ELSE 0)
              + QuantityRequested(S \ {r})

\* C25: every POST /execute for the stored order is answered applied: true,
\* and once the handlers have finished filled_quantity has grown by the sum of
\* the requests' quantities, whenever the requests arrived
C25_EveryRequestApplied ==
    /\ \A r \in Requests :
          (ForStoredOrder(r) /\ handler[r].pc = "done") =>
              (handler[r].response.status = 200 /\ handler[r].response.applied)
    /\ MockQuiescent => row.filled_quantity = QuantityRequested(Requests)

\* C26: once all POST /execute handlers have finished, however their awaited
\* steps interleaved, the stored status agrees with the stored filled_quantity
C26_StatusAgreesWhenFinished ==
    (MockQuiescent /\ \E r \in Requests : handler[r].pc = "done") =>
        row.status = StatusOfFill(row.filled_quantity, row.quantity)

\* C27: once the mock engine's handlers have finished and the consumer's
\* engine, started from the order as created, has taken every broadcast, the
\* engine's filledQuantity and status are those of the stored row
C27_ServerConsumerAgreement ==
    (MockQuiescent /\ wsRead = Len(wsSent)) =>
        /\ order.filledQuantity = row.filled_quantity
        /\ order.status = row.status

\* C28: whenever the demo engine has an order, under fair timer ticks the
\* first order of the Map eventually is FILLED, whatever POST /orders
\* requests were made
C28_FirstOrderEventuallyFilled ==
    (demoOrders # <<>>) ~> (demoOrders # <<>> /\ demoOrders[1].status = "FILLED")

C30_ConsumerInvariants ==
    ~AssertInvariantsThrows(ecOrder, ecAccount, ecInitialBalance)

\* after clearCache an event applied before has been applied again, capped at
\* what remained
C30_Witness ==
    /\ ecLast.op = "apply"
    /\ ecLast.result.applied
    /\ ecLast.result.reason = "capped"
    /\ ecSeen = {ecLast.evt.eventId}
    /\ ecAppliedCount >= 2
    /\ ecRejectedCount >= 1
    /\ ecOrder.status = "FILLED"

\* C31: after any sequence of apply calls, getMetrics().duplicateCount is the
\* number of calls rejected with reason duplicate, appliedCount is the number
\* of calls that returned applied: true, and appliedCount + rejectedCount is
\* the number of calls
C31_Metrics ==
    LET metrics == getMetrics(ecAppliedCount, ecRejectedCount, ecSeen) IN
    /\ metrics.duplicateCount = ecCalls.duplicates
    /\ metrics.appliedCount = ecCalls.applied
    /\ metrics.appliedCount + metrics.rejectedCount = ecCalls.total

\* the events of the sequence that the handler passes to applyExecution
ExecutionsOf(events) ==
    SelectSeq(events, LAMBDA e : e.type = "execution")

IsPrefixOf(s, t) ==
    /\ Len(s) <= Len(t)
    /\ SubSeq(t, 1, Len(s)) = s

\* the engine state after applyExecution was called with each event, in order
RECURSIVE AppliedInOrder(_, _)
AppliedInOrder(events, st) ==
    IF events = <<>> THEN st
    ELSE LET out == applyExecutionJs(Head(events), st.order, st.account,
                                     st.processed)
         IN AppliedInOrder(Tail(events),
                           [order |-> out.order, account |-> out.account,
                            processed |-> out.processed])

\* the new order and account the engine was constructed with
BroadcastInitialState ==
    [order |-> [order EXCEPT !.filledQuantity = 0, !.status = "OPEN"],
     account |-> [balance |-> InitialBalance],
     processed |-> {}]

\* valid executions for the engine's order with pairwise distinct eventIds
DistinctValid(events) ==
    /\ \A i \in 1..Len(events) :
          /\ events[i].type = "execution"
          /\ events[i].orderId = OrderId
          /\ events[i].executedQuantity > 0
    /\ \A i, j \in 1..Len(events) :
          i # j => events[i].eventId # events[j].eventId

RECURSIVE SumExecuted(_)
SumExecuted(events) ==
    IF events = <<>> THEN 0
    ELSE Head(events).executedQuantity + SumExecuted(Tail(events))

\* how many of the events reach an order that is not yet full
ReachingOpenOrder(events, quantity) ==
    Cardinality({ i \in 1..Len(events) :
                    SumExecuted(SubSeq(events, 1, i - 1)) < quantity })

\* C32 as stated: once the n distinct valid events broadcast to the open
\* connection of a consumer with a new order have been handled, the engine
\* has recorded n eventIds and filledQuantity is the capped sum
C32_AllBroadcastsRecorded ==
    (bcQueue = <<>> /\ DistinctValid(bcSent)) =>
        /\ Cardinality(processedEventIds) = Len(bcSent)
        /\ order.filledQuantity = Min(order.quantity, SumExecuted(bcSent))

\* C32 amended: the executions handed to the engine are always a prefix of
\* those broadcast while the connection was OPEN, each handed once and in
\* broadcast order, and every one of them is eventually handed; the engine is
\* in the state that applying them in that order gives. After n distinct
\* valid events filledQuantity is the capped sum, and the engine has recorded
\* the eventIds of those that reached the order before it was FILLED, which
\* are n only if the first n - 1 do not fill the order
C32_BroadcastToApply ==
    /\ [](/\ IsPrefixOf(bcHanded, ExecutionsOf(bcSent))
          /\ Snapshot = AppliedInOrder(bcHanded, BroadcastInitialState)
          /\ (bcQueue = <<>> /\ DistinctValid(bcSent)) =>
                /\ order.filledQuantity
                      = Min(order.quantity, SumExecuted(bcSent))
                /\ Cardinality(processedEventIds)
                      = ReachingOpenOrder(bcSent, order.quantity))
    /\ \A n \in 1..MaxBroadcasts :
          (Len(ExecutionsOf(bcSent)) >= n) ~> (Len(bcHanded) >= n)

\* two distinct valid events were broadcast to the open connection and both
\* handled; the first filled the order, so the second was not recorded
C32_Witness ==
    /\ bcQueue = <<>>
    /\ Len(bcSent) = 2
    /\ DistinctValid(bcSent)
    /\ bcHanded = bcSent
    /\ order.status = "FILLED"
    /\ Cardinality(processedEventIds) = 1
    /\ lastOp = "apply"
    /\ result.reason = "already_filled"

C34_OnlyApplyWrites ==
    [][/\ lastOp' \in {"get", "clear"} =>
             /\ order'.filledQuantity = order.filledQuantity
             /\ order'.status = order.status
             /\ account'.balance = account.balance
       /\ (order' # order \/ account' # account) => lastOp' = "apply"]_vars

\* clearProcessedEvents was called on an engine whose order is FILLED and
\* whose balance has been debited, and both are as before the call
C34_Witness ==
    /\ lastOp = "clear"
    /\ pre.processed # {}
    /\ order.status = "FILLED"
    /\ order = pre.order
    /\ account.balance < InitialBalance
    /\ account = pre.account

\* the init function of the service has returned on its first success, or
\* has not succeeded yet
ReturnedOnFirstSuccess(s, client) ==
    /\ stTried[s].attempts <= MaxConnectAttempts
    /\ stTried[s].attempts
          = stTried[s].failed + (IF client # Null THEN 1 ELSE 0)

ConnectedAndNotGone(events) ==
    { ws \in Sockets :
        /\ "connection" \in events[ws]
        /\ "close" \notin events[ws]
        /\ "error" \notin events[ws] }

\* C36: after any sequence of connection, close and error events, wsClients
\* holds exactly the sockets that connected and have not since closed or
\* errored; /health reports its size; an execution event is sent only to
\* members of the set whose readyState is OPEN
C36_ClientRegistry ==
    /\ wsClients = ConnectedAndNotGone(wsEvents)
    /\ wsHealth # NoValue =>
          wsHealth.wsClients = Cardinality(ConnectedAndNotGone(wsHealth.events))
    /\ wsBroadcast # NoValue =>
          \A ws \in wsBroadcast.sentTo :
              /\ ws \in ConnectedAndNotGone(wsBroadcast.events)
              /\ wsBroadcast.readyState[ws] = "OPEN"

\* an execution was broadcast while one member of the set was OPEN and
\* another was CLOSING, and only the first was sent it; since then a socket
\* has errored and /health has reported the one client left
C36_Witness ==
    /\ wsBroadcast # NoValue
    /\ Cardinality(wsBroadcast.sentTo) = 1
    /\ \E ws \in ConnectedAndNotGone(wsBroadcast.events) :
          wsBroadcast.readyState[ws] = "CLOSING"
    /\ \E ws \in Sockets : "error" \in wsEvents[ws]
    /\ wsHealth # NoValue
    /\ wsHealth.wsClients = 1
    /\ Cardinality(wsClients) = 1

====
